---- MODULE Spec2Model ----
(***************************************************************************)
(* A model of pygrim's symbolic kernel: the term representation (expr.py), *)
(* the inference engine and the memoized simplifier of Brain and           *)
(* FungrimBrain (brain.py).  Terms are immutable trees; a session (Brain)  *)
(* owns a fact set, a simplification cache and, for FungrimBrain, a        *)
(* knowledge base.  Python functions become operators that are computed    *)
(* as the code computes them; a function with side effects takes the       *)
(* mutable part of the session and returns it with its value.              *)
(***************************************************************************)
EXTENDS Integers, Sequences, FiniteSets, TLC

VARIABLES
    brain,          \* the session: its facts and its knowledge base (frozen after construction)
    simple_cache,   \* Brain.simple_cache: term -> result, NoneV while the rule runs
    calls,          \* every call of simple made on the session, with its result
    oracle,         \* how the numeric oracle answers in this run
    last,           \* the last API call made on the session and what it returned
    ncalls,         \* API calls made on this session
    deg_limit,      \* algebraic backend: process-wide degree limit
    bits_limit,     \* algebraic backend: process-wide bit-size limit
    frames          \* call stack of the running equal() calls

vars == <<brain, simple_cache, calls, oracle, last, ncalls, deg_limit, bits_limit, frames>>

----------------------------------------------------------------------------
(* Bounds of the model *)

\* values are carried in units of 1/Scale
Scale == 10
\* how far a wide enclosure reaches beyond the value, in units of 1/Scale
Wide == 40
\* API calls per session
MaxCalls == 2
\* nesting depth of equal() calls
MaxDepth == 3
\* the bits of the mantissa of a float (53 in Python)
MantissaBits == 8
\* the most arguments of a constructed application
MaxArgs == 2
\* the integers whose complexity is asked for lie in -MaxInt..MaxInt
MaxInt == 20

----------------------------------------------------------------------------
(* Python values *)

PyTrue == "True"
PyFalse == "False"
PyNone == "None"
\* an exception leaves the function
Raise == "Raise"

Bool3(b) == IF b THEN PyTrue ELSE PyFalse

\* if c: a  else: b
If3(c, a, b) == IF c = Raise THEN Raise ELSE IF c = PyTrue THEN a ELSE b

\* truth of "a and b" as a condition
PyAnd(a, b) == IF a = Raise THEN Raise ELSE IF a = PyTrue THEN b ELSE a

\* truth of "a or b" as a condition
PyOr(a, b) == IF a = Raise THEN Raise ELSE IF a = PyTrue THEN a ELSE b

\* not v
PyNot(v) == IF v = Raise THEN Raise ELSE Bool3(v # PyTrue)

\* True and False exchanged, None kept
PyNot3(v) == IF v = PyTrue THEN PyFalse ELSE IF v = PyFalse THEN PyTrue ELSE v

\* index of the first element of vals that ends the scan of all(): not True
FirstNotTrue(vals) == CHOOSE i \in DOMAIN vals : vals[i] # PyTrue /\ \A j \in 1..(i-1) : vals[j] = PyTrue

\* all(v for v in vals), the generator stopping at the first falsy value or exception
PyAll(vals) ==
    IF \A i \in DOMAIN vals : vals[i] = PyTrue THEN PyTrue
    ELSE IF vals[FirstNotTrue(vals)] = Raise THEN Raise ELSE PyFalse

\* index of the first element that ends the scan of any(): True or an exception
FirstStop(vals) == CHOOSE i \in DOMAIN vals : vals[i] \in {PyTrue, Raise} /\ \A j \in 1..(i-1) : vals[j] \notin {PyTrue, Raise}

\* any(v for v in vals)
PyAny(vals) ==
    IF \A i \in DOMAIN vals : vals[i] \notin {PyTrue, Raise} THEN PyFalse
    ELSE vals[FirstStop(vals)]

----------------------------------------------------------------------------
(* expr.py: Expr *)

\* Expr(symbol_name=s)
Symbol(s) == [k |-> "sym", s |-> s, i |-> 0, a |-> <<>>]
\* Expr(n) for an int n
ExprInt(n) == [k |-> "int", s |-> "", i |-> n, a |-> <<>>]
\* Expr(call=(h, args...)): _args holds the head first
Apply(h, args) == [k |-> "app", s |-> "", i |-> 0, a |-> <<h>> \o args]
\* Python's None where a term is expected
NoneV == [k |-> "none", s |-> "", i |-> 0, a |-> <<>>]
\* an exception where a term is expected
RaiseV == [k |-> "raise", s |-> "", i |-> 0, a |-> <<>>]

\* Expr(call=call) without the assertion
Expr_new_unchecked(call) == [k |-> "app", s |-> "", i |-> 0, a |-> call]
\* Expr(call=call) for a sequence of terms: assert len(self._args) >= 1
Expr_new(call) ==
    IF Len(call) >= 1 THEN [k |-> "app", s |-> "", i |-> 0, a |-> call] ELSE RaiseV
\* self(*ts)
Expr_call(self, ts) == Expr_new(<<self>> \o ts)

Ap1(h, x) == Apply(h, <<x>>)
Ap2(h, x, y) == Apply(h, <<x, y>>)

is_atom(t) == t.k # "app"
is_symbol(t) == t.k = "sym"
is_integer_atom(t) == t.k = "int"
head(t) == IF t.k = "app" THEN t.a[1] ELSE NoneV
args(t) == IF t.k = "app" THEN Tail(t.a) ELSE <<>>
nargs(t) == Len(args(t))

\* builtin symbols (inject_builtin)
True_ == Symbol("True_")
False_ == Symbol("False_")
Pos == Symbol("Pos")
Neg == Symbol("Neg")
Add == Symbol("Add")
Sub == Symbol("Sub")
Mul == Symbol("Mul")
Div == Symbol("Div")
Pow == Symbol("Pow")
Sqrt == Symbol("Sqrt")
Exp == Symbol("Exp")
Log == Symbol("Log")
Sin == Symbol("Sin")
Cos == Symbol("Cos")
Cosh == Symbol("Cosh")
Factorial == Symbol("Factorial")
Im == Symbol("Im")
Pi == Symbol("Pi")
ConstI == Symbol("ConstI")
ConstE == Symbol("ConstE")
ConstGamma == Symbol("ConstGamma")
ConstCatalan == Symbol("ConstCatalan")
GoldenRatio == Symbol("GoldenRatio")
Infinity == Symbol("Infinity")
UnsignedInfinity == Symbol("UnsignedInfinity")
Undefined == Symbol("Undefined")
Not == Symbol("Not")
And == Symbol("And")
Or == Symbol("Or")
Implies == Symbol("Implies")
Equal == Symbol("Equal")
NotEqual == Symbol("NotEqual")
Element == Symbol("Element")
NotElement == Symbol("NotElement")
Less == Symbol("Less")
LessEqual == Symbol("LessEqual")
Greater == Symbol("Greater")
GreaterEqual == Symbol("GreaterEqual")
Parentheses == Symbol("Parentheses")
Brackets == Symbol("Brackets")
Braces == Symbol("Braces")
CC == Symbol("CC")
RR == Symbol("RR")
QQ == Symbol("QQ")
ZZ == Symbol("ZZ")
PP == Symbol("PP")
HH == Symbol("HH")
AlgebraicNumbers == Symbol("AlgebraicNumbers")
ZZGreaterEqual == Symbol("ZZGreaterEqual")
ZZLessEqual == Symbol("ZZLessEqual")
Range == Symbol("Range")
ClosedInterval == Symbol("ClosedInterval")
OpenInterval == Symbol("OpenInterval")
ClosedOpenInterval == Symbol("ClosedOpenInterval")
OpenClosedInterval == Symbol("OpenClosedInterval")
Set == Symbol("Set")
Union == Symbol("Union")
Intersection == Symbol("Intersection")
SetMinus == Symbol("SetMinus")
Tan == Symbol("Tan")
Cot == Symbol("Cot")
Csc == Symbol("Csc")
Sec == Symbol("Sec")
Re == Symbol("Re")
Abs == Symbol("Abs")
Sign == Symbol("Sign")
Where == Symbol("Where")

\* -Infinity, built by Expr.__neg__
NegInfinity == Ap1(Neg, Infinity)

\* brain.py: module-level sets
positive_real_constants == {Pi, ConstE, ConstGamma, ConstCatalan, GoldenRatio}
complex_constants == positive_real_constants \cup {ConstI}

----------------------------------------------------------------------------
(* expr.py: scopes.  An application binds variables when its head is Where *)
(* or one of its arguments is a For or ForElement; the binders are read    *)
(* from left to right and the other arguments see all of them.             *)

For == Symbol("For")
ForElement == Symbol("ForElement")
Def == Symbol("Def")
Tuple == Symbol("Tuple")
Matrix2x2 == Symbol("Matrix2x2")
List == Symbol("List")
Sum == Symbol("Sum")
Subscript == Symbol("Subscript")

\* the names of the builtin symbols that occur in the model
all_builtins_set ==
    {"True_", "False_", "Pos", "Neg", "Add", "Sub", "Mul", "Div", "Pow",
     "Sqrt", "Exp", "Log", "Sin", "Cos", "Cosh", "Factorial", "Im", "Pi",
     "ConstI", "ConstE", "ConstGamma", "ConstCatalan", "GoldenRatio",
     "Infinity", "UnsignedInfinity", "Undefined", "Not", "And", "Or",
     "Implies", "Equal", "NotEqual", "Element", "NotElement", "Less",
     "LessEqual", "Greater", "GreaterEqual", "Parentheses", "Brackets",
     "Braces", "CC", "RR", "QQ", "ZZ", "PP", "HH", "AlgebraicNumbers",
     "ZZGreaterEqual", "ZZLessEqual", "Range", "ClosedInterval",
     "OpenInterval", "ClosedOpenInterval", "OpenClosedInterval", "Set",
     "Union", "Intersection", "SetMinus", "Tan", "Cot", "Csc", "Sec", "Re",
     "Abs", "Sign", "Where", "For", "ForElement", "Def", "Tuple",
     "Matrix2x2", "List", "Sum", "Subscript"}

Elems(ts) == {ts[i] : i \in 1..Len(ts)}

\* the condition of the binding branch of free_variables and of replace
has_binders(t) ==
    head(t) = Where \/ \E i \in 1..nargs(t) : head(args(t)[i]) \in {For, ForElement}

\* an argument that is read as a binder of the application t
is_binder(t, i) ==
    /\ ~(head(t) = Where /\ i = 1)
    /\ \/ head(args(t)[i]) \in {For, ForElement}
       \/ head(t) = Where /\ head(args(t)[i]) \in {Equal, Def}

\* Def(f(p1, ..., pk), e) under Where, f not a builtin: a local function
is_local_function(t, arg) ==
    /\ head(t) = Where
    /\ head(arg) \in {Equal, Def}
    /\ nargs(arg) >= 1
    /\ ~is_atom(args(arg)[1])
    /\ is_symbol(head(args(arg)[1]))
    /\ head(args(arg)[1]).s \notin all_builtins_set

\* Tuple(f(i), For(i, a, b)) as the pattern of a definition
is_indexed_tuple(new_var) ==
    /\ head(new_var) = Tuple
    /\ nargs(new_var) = 2
    /\ head(args(new_var)[2]) = For

\* a binder that the code cannot unpack: For() has no variable, and the
\* For of an indexed tuple must have three arguments
malformed_binder(arg) ==
    \/ nargs(arg) = 0
    \/ /\ is_indexed_tuple(args(arg)[1])
       /\ nargs(args(args(arg)[1])[2]) # 3

\* a binder of an indexed tuple that binds the index and the function
bound_by_index(t, arg) ==
    IF is_indexed_tuple(args(arg)[1])
    THEN {args(args(args(arg)[1])[2])[1], head(args(args(arg)[1])[1])}
    ELSE {args(arg)[1]}

\* the symbols a binder adds to the bound set of free_variables
bound_by(t, arg) ==
    LET new_var == args(arg)[1]
    IN  IF is_local_function(t, arg) THEN {head(new_var)}
        ELSE IF is_indexed_tuple(new_var)
        THEN LET a == args(args(new_var)[2])[2]
                 b == args(args(new_var)[2])[3]
             IN  IF is_integer_atom(a) /\ is_symbol(b)
                 THEN {b, head(args(new_var)[1])} ELSE {}
        ELSE IF head(new_var) \in {Tuple, Matrix2x2} THEN Elems(args(new_var))
        ELSE {new_var}

\* the keys a binder deletes from the rules of replace
unbound_by(t, arg) ==
    LET new_var == args(arg)[1]
    IN  IF is_local_function(t, arg) THEN {head(new_var)}
        ELSE IF is_indexed_tuple(new_var)
        THEN {args(args(new_var)[2])[3], head(args(new_var)[1])}
        ELSE IF head(new_var) \in {Tuple, Matrix2x2} THEN Elems(args(new_var))
        ELSE {new_var}

\* no parameter is hidden
no_formals(t, arg) == {}

\* what a binder hides inside its own data: the formal parameters of a
\* local function, nothing otherwise
formals(t, arg) ==
    IF is_local_function(t, arg) THEN Elems(args(args(arg)[1])) ELSE {}

RECURSIVE search(_, _)
RECURSIVE search_each(_, _, _)
RECURSIVE search_binders(_, _, _)
RECURSIVE bound_local(_, _, _)

\* the union of search over ts[i..]
search_each(ts, i, bound) ==
    IF i > Len(ts) THEN {}
    ELSE search(ts[i], bound) \cup search_each(ts, i + 1, bound)

\* the bound set after the binders among the first n arguments of t
bound_local(t, n, bound) ==
    IF n = 0 THEN bound
    ELSE IF is_binder(t, n) /\ ~malformed_binder(args(t)[n])
    THEN bound_local(t, n - 1, bound) \cup bound_by(t, args(t)[n])
    ELSE bound_local(t, n - 1, bound)

\* the free variables found in the data of the binders t's arguments i..
search_binders(t, i, bound) ==
    IF i > nargs(t) THEN {}
    ELSE LET arg == args(t)[i]
         IN  IF ~is_binder(t, i) THEN search_binders(t, i + 1, bound)
             ELSE IF malformed_binder(arg) THEN {RaiseV}
             ELSE search_each(args(arg), 2,
                              bound_local(t, i - 1, bound) \cup formals(t, arg))
                  \cup search_binders(t, i + 1, bound)

\* the arguments of t that are not binders
remaining(t) == {i \in 1..nargs(t) : ~is_binder(t, i)}

\* Expr.free_variables: search(expr, bound)
search(expr, bound) ==
    IF is_atom(expr)
    THEN IF is_symbol(expr) /\ expr.s \notin all_builtins_set /\ expr \notin bound
         THEN {expr} ELSE {}
    ELSE IF head(expr) = Subscript /\ nargs(expr) # 2 THEN {RaiseV}
    ELSE IF /\ head(expr) = Subscript
            /\ is_symbol(args(expr)[1])
            /\ is_integer_atom(args(expr)[2])
    THEN search(args(expr)[1], bound)
    ELSE IF has_binders(expr)
    THEN LET found == search_binders(expr, 1, bound)
         IN  IF RaiseV \in found THEN {RaiseV}
             ELSE found \cup UNION {search(args(expr)[i],
                                           bound_local(expr, nargs(expr), bound)) :
                                    i \in remaining(expr)}
    ELSE search(head(expr), bound) \cup search_each(args(expr), 1, bound)

free_variables(expr) ==
    LET found == search(expr, {})
    IN  IF RaiseV \in found THEN {RaiseV} ELSE found

\* head(*args), unless computing the head or an argument raised
Built(h, ts) == IF h = RaiseV \/ RaiseV \in Elems(ts) THEN RaiseV ELSE Apply(h, ts)

\* the rules without the keys in ks
RulesWithout(rules, ks) == [k \in DOMAIN rules \ ks |-> rules[k]]

RECURSIVE replace_semantic(_, _)
RECURSIVE rules_after(_, _, _)

\* the rules after the binders among the first n arguments of t
rules_after(t, n, rules) ==
    IF n = 0 THEN rules
    ELSE IF is_binder(t, n) /\ ~malformed_binder(args(t)[n])
    THEN RulesWithout(rules_after(t, n - 1, rules), unbound_by(t, args(t)[n]))
    ELSE rules_after(t, n - 1, rules)

\* a binder with its data replaced: the variable is kept, the data is
\* replaced under the rules that reach the binder
replace_binder(t, i, rules) ==
    LET arg == args(t)[i]
        here == RulesWithout(rules_after(t, i - 1, rules), formals(t, arg))
    IN  Built(head(arg),
              [j \in 1..nargs(arg) |->
                 IF j = 1 THEN args(arg)[1]
                 ELSE replace_semantic(args(arg)[j], here)])

\* Expr.replace(rules, semantic=True)
replace_semantic(expr, rules) ==
    IF expr \in DOMAIN rules THEN rules[expr]
    ELSE IF is_atom(expr) \/ DOMAIN rules = {} THEN expr
    ELSE IF has_binders(expr)
    THEN IF \E i \in 1..nargs(expr) :
               is_binder(expr, i) /\ malformed_binder(args(expr)[i])
         THEN RaiseV
         ELSE Built(head(expr),
                    [i \in 1..nargs(expr) |->
                       IF is_binder(expr, i) THEN replace_binder(expr, i, rules)
                       ELSE replace_semantic(args(expr)[i],
                                             rules_after(expr, nargs(expr), rules))])
    ELSE Built(replace_semantic(head(expr), rules),
               [i \in 1..nargs(expr) |-> replace_semantic(args(expr)[i], rules)])

----------------------------------------------------------------------------
(* The numeric oracle (pygrim.numeric.neval, python-flint arb/acb).  Its    *)
(* code is not part of the sources; it is modelled from its contract: a    *)
(* sound, possibly wide, enclosure of the value, an error on shapes it     *)
(* does not support, or a non-finite ball.                                 *)

PiLo == (314 * Scale) \div 100
PiHi == PiLo + 1

NoVal == [st |-> "unsup", rl |-> 0, rh |-> 0, il |-> 0, ih |-> 0]
NanVal == [st |-> "nan", rl |-> 0, rh |-> 0, il |-> 0, ih |-> 0]
NumVal(rl, rh, il, ih) == [st |-> "num", rl |-> rl, rh |-> rh, il |-> il, ih |-> ih]

RECURSIVE Val(_)
RECURSIVE ValSum(_, _)

\* bounds of the sum of the values of ts[i..]
ValSum(ts, i) ==
    IF i > Len(ts) THEN NumVal(0, 0, 0, 0)
    ELSE LET v == Val(ts[i])
             r == ValSum(ts, i + 1)
         IN IF v.st # "num" THEN v
            ELSE IF r.st # "num" THEN r
            ELSE NumVal(v.rl + r.rl, v.rh + r.rh, v.il + r.il, v.ih + r.ih)

\* the value of a closed term: bounds, in units of 1/Scale, of its real and imaginary part
Val(t) ==
    IF is_integer_atom(t) THEN NumVal(t.i * Scale, t.i * Scale, 0, 0)
    ELSE IF t = Pi THEN NumVal(PiLo, PiHi, 0, 0)
    ELSE IF t = ConstI THEN NumVal(0, 0, Scale, Scale)
    ELSE IF head(t) = Pos /\ nargs(t) = 1 THEN Val(args(t)[1])
    ELSE IF head(t) = Neg /\ nargs(t) = 1 THEN
        LET v == Val(args(t)[1])
        IN IF v.st # "num" THEN v ELSE NumVal(-v.rh, -v.rl, -v.ih, -v.il)
    ELSE IF head(t) = Add THEN ValSum(args(t), 1)
    ELSE IF head(t) = Sub /\ nargs(t) = 2 THEN ValSum(<<args(t)[1], Ap1(Neg, args(t)[2])>>, 1)
    ELSE IF head(t) = Div /\ nargs(t) = 2 THEN
        LET p == Val(args(t)[1])
            q == Val(args(t)[2])
        IN IF p.st = "num" /\ q.st = "num" /\ q.rl = 0 /\ q.rh = 0 /\ q.il = 0 /\ q.ih = 0 THEN NanVal
           ELSE NoVal
    ELSE NoVal

RECURSIVE HasI(_)
\* the term mentions the imaginary unit: its ball is an acb, otherwise an arb
HasI(t) == t = ConstI \/ (\E j \in 1..Len(t.a) : HasI(t.a[j]))

OracleErr == [kind |-> "err", fin |-> TRUE, rl |-> 0, rh |-> 0, il |-> 0, ih |-> 0]

\* the ball the oracle computes around the value v of t, or its error
Ball(t, v) ==
    LET kind == IF HasI(t) THEN "acb" ELSE "arb"
        mode == IF is_atom(t) THEN oracle.atom ELSE oracle.comp
        w == IF mode = "wide" /\ ~is_integer_atom(t) THEN Wide ELSE 0
        wi == IF kind = "acb" THEN w ELSE 0
    IN IF v.st = "unsup" THEN OracleErr
       ELSE IF v.st = "nan" THEN
            (IF oracle.undef = "nonfinite"
             THEN [kind |-> kind, fin |-> FALSE, rl |-> 0, rh |-> 0, il |-> 0, ih |-> 0]
             ELSE OracleErr)
       ELSE IF mode = "err" /\ ~is_integer_atom(t) THEN OracleErr
       ELSE [kind |-> kind, fin |-> TRUE, rl |-> v.rl - w, rh |-> v.rh + w, il |-> v.il - wi, ih |-> v.ih + wi]

\* neval(x, as_arb=True): a ball, or an error (NotImplementedError, ValueError)
neval(t) == Ball(t, Val(t))

\* ball predicates (arb/acb comparisons are true only when true of every point)
EncNone == [st |-> "none", fin |-> TRUE, rl |-> 0, rh |-> 0, il |-> 0, ih |-> 0]
EncRaise == [st |-> "raise", fin |-> TRUE, rl |-> 0, rh |-> 0, il |-> 0, ih |-> 0]
EncOf(o) == [st |-> "ok", fin |-> o.fin, rl |-> o.rl, rh |-> o.rh, il |-> o.il, ih |-> o.ih]

ImagIsZero(e) == e.fin /\ e.il = 0 /\ e.ih = 0
ImagNotZero(e) == e.fin /\ (e.il > 0 \/ e.ih < 0)
RealIsZero(e) == e.fin /\ e.rl = 0 /\ e.rh = 0
ContainsZero(e) == e.fin /\ e.rl <= 0 /\ 0 <= e.rh /\ e.il <= 0 /\ 0 <= e.ih
Overlaps(e, f) == e.fin /\ f.fin /\ e.rl <= f.rh /\ f.rl <= e.rh /\ e.il <= f.ih /\ f.il <= e.ih
ContainsInteger(e) ==
    e.fin /\ e.il <= 0 /\ 0 <= e.ih
    /\ \E n \in ((e.rl \div Scale) - 1)..((e.rh \div Scale) + 1) : e.rl <= n * Scale /\ n * Scale <= e.rh

----------------------------------------------------------------------------
(* Calls of methods of the session are dispatched by Method, defined below *)

\* self.<method>(...): a call of a method of the session, see Method
RECURSIVE Method(_, _, _, _)
RECURSIVE is_zero(_, _)
RECURSIVE is_not_zero(_, _)
RECURSIVE is_infinity(_, _)
RECURSIVE is_nonnegative(_, _)
RECURSIVE is_positive(_, _)
RECURSIVE is_negative(_, _)
RECURSIVE is_nonpositive(_, _)
RECURSIVE is_integer(_, _)
RECURSIVE is_rational(_, _)
RECURSIVE is_real(_, _)
RECURSIVE is_complex(_, _)
RECURSIVE is_extended_real(_, _)
RECURSIVE is_algebraic(_, _)
RECURSIVE equal(_, _, _)
RECURSIVE equal_before(_, _, _)
RECURSIVE equal_exact(_, _)
RECURSIVE equal_after(_, _, _)
RECURSIVE greater(_, _, _, _)
RECURSIVE less(_, _, _, _)
RECURSIVE greater_equal(_, _, _, _)
RECURSIVE less_equal(_, _, _, _)
RECURSIVE Simple(_, _, _)
RECURSIVE element(_, _, _, _)
RECURSIVE real_enclosure(_)
RECURSIVE complex_enclosure(_)
RECURSIVE Brain(_)
RECURSIVE FungrimBrain(_, _)
RECURSIVE simple_Add(_, _, _)
RECURSIVE simple_Mul(_, _, _)
RECURSIVE simple_Sub(_, _, _)
RECURSIVE simple_Where(_, _, _)
RECURSIVE simple_Pow(_, _, _)
RECURSIVE simple_Sqrt(_, _, _)

----------------------------------------------------------------------------
(* Brain: enclosures *)

\* Brain.real_enclosure, lines 318-324, on the result val of neval
real_ball(val) == IF val.kind = "arb" THEN EncOf(val) ELSE EncNone
\* Brain.real_enclosure
Brain_real_enclosure(x) == real_ball(neval(x))

\* Brain.complex_enclosure, lines 332-341, on the result val of neval: the assert is not
\* among the caught exceptions
complex_ball(val) ==
    IF val.kind = "err" THEN EncNone
    ELSE IF ~val.fin THEN EncRaise
    ELSE EncOf(val)
\* Brain.complex_enclosure
Brain_complex_enclosure(x) == complex_ball(neval(x))

----------------------------------------------------------------------------
(* Control flow of a Python function body: a chain of statements each of   *)
(* which either returns a value, raises, or falls through (Cont).          *)

Cont == "Cont"
\* statement s, then the rest of the body
Then(s, rest) == IF s = Cont THEN rest ELSE s
\* if c: return v
RetIf(c, v) == IF c = Raise THEN Raise ELSE IF c = PyTrue THEN v ELSE Cont
\* if c: <inner statements>
Under(c, inner) == IF c = Raise THEN Raise ELSE IF c = PyTrue THEN inner ELSE Cont
\* a, b, ... = x.args() with n targets: ValueError unless x has n arguments
Unpack(x, n, body) == IF nargs(x) # n THEN Raise ELSE body
\* v == False
EqFalse(v) == IF v = Raise THEN Raise ELSE Bool3(v = PyFalse)
\* val = self.complex_enclosure(x); if val is not None: <inner>
WithEnc(val, inner) == IF val.st = "raise" THEN Raise ELSE IF val.st = "ok" THEN inner ELSE Cont

Zero == ExprInt(0)
One == ExprInt(1)
\* fact in self.inferences
Known(B, fact) == Bool3(fact \in B.inferences)

----------------------------------------------------------------------------
(* Brain: predicates that only read the session *)

\* Brain.is_zero
Brain_is_zero(B, x) ==
    Then(RetIf(Bool3(is_integer_atom(x)), Bool3(x.i = 0)),
    Then(RetIf(Known(B, Ap2(Equal, x, Zero)), PyTrue),
    Then(RetIf(Known(B, Ap2(NotEqual, x, Zero)), PyFalse),
    Then(RetIf(Known(B, Ap2(Greater, x, Zero)), PyFalse),
    Then(RetIf(Known(B, Ap2(Less, x, Zero)), PyFalse),
    Then(RetIf(EqFalse(is_integer(B, x)), PyFalse),
    Then(RetIf(is_positive(B, x), PyFalse),
    LET val == complex_enclosure(x)
    IN IF val.st = "raise" THEN Raise
       ELSE Then(RetIf(Bool3(val.st = "ok" /\ ~ContainsZero(val)), PyFalse),
            Then(RetIf(is_infinity(B, x), PyFalse),
            PyNone)))))))))

Brain_is_not_zero(B, x) ==
    LET v == is_zero(B, x)
    IN IF v = PyNone THEN v ELSE PyNot(v)

Brain_is_infinity(B, x) ==
    Then(RetIf(Bool3(x = Infinity), PyTrue),
    Then(RetIf(Bool3(x = UnsignedInfinity), PyTrue),
    Then(RetIf(Bool3(x = Undefined), PyFalse),
    Then(RetIf(Known(B, Ap2(Element, x, CC)), PyFalse),
    Then(Under(Bool3(head(x) \in {Pos, Neg}),
            Unpack(x, 1, RetIf(is_infinity(B, args(x)[1]), PyTrue))),
    Then(Under(Bool3(head(x) = Mul),
            Under(PyAny([j \in 1..nargs(x) |-> is_infinity(B, args(x)[j])]),
                RetIf(PyAll([j \in 1..nargs(x) |->
                        PyOr(is_infinity(B, args(x)[j]),
                             PyAnd(is_complex(B, args(x)[j]), is_not_zero(B, args(x)[j])))]),
                      PyTrue))),
    Then(WithEnc(complex_enclosure(x), PyFalse),
    PyNone)))))))

Brain_is_nonnegative(B, x) ==
    Then(RetIf(Bool3(is_integer_atom(x)), Bool3(x.i >= 0)),
    Then(RetIf(Bool3(x \in positive_real_constants), PyTrue),
    Then(RetIf(Known(B, Ap2(GreaterEqual, x, Zero)), PyTrue),
    Then(RetIf(Known(B, Ap2(Greater, x, Zero)), PyTrue),
    Then(RetIf(Known(B, Ap2(Less, x, Zero)), PyFalse),
    Then(Under(is_real(B, x),
            Then(Under(Bool3(head(x) \in {Pos, Add, Mul, Exp, Sqrt}),
                    RetIf(PyAll([j \in 1..nargs(x) |-> is_nonnegative(B, args(x)[j])]), PyTrue)),
            Then(Under(Bool3(head(x) = Div),
                    Unpack(x, 2, RetIf(PyAnd(is_nonnegative(B, args(x)[1]), is_positive(B, args(x)[2])), PyTrue))),
            Then(Under(Bool3(head(x) = Pow),
                    Unpack(x, 2, RetIf(is_positive(B, args(x)[1]), PyTrue))),
            Cont)))),
    Then(LET val == complex_enclosure(x)
         IN WithEnc(val,
                Then(RetIf(Bool3(ImagIsZero(val) /\ val.rl >= 0), PyTrue),
                Then(RetIf(Bool3(ImagNotZero(val) \/ val.rh < 0), PyFalse),
                Cont))),
    PyNone)))))))

Brain_is_positive(B, x) ==
    Then(RetIf(Bool3(is_integer_atom(x)), Bool3(x.i > 0)),
    Then(RetIf(Bool3(x \in positive_real_constants), PyTrue),
    Then(RetIf(Known(B, Ap2(Greater, x, Zero)), PyTrue),
    Then(RetIf(Known(B, Ap2(LessEqual, x, Zero)), PyFalse),
    Then(RetIf(Known(B, Ap2(Less, x, Zero)), PyFalse),
    Then(Under(is_real(B, x),
            Then(Under(Bool3(head(x) \in {Exp, Cosh}),
                    Unpack(x, 1, RetIf(is_real(B, args(x)[1]), PyTrue))),
            Then(Under(Bool3(head(x) \in {Pos, Add, Mul, Sqrt}),
                    RetIf(PyAll([j \in 1..nargs(x) |-> is_positive(B, args(x)[j])]), PyTrue)),
            Then(Under(Bool3(head(x) = Div),
                    Unpack(x, 2, RetIf(PyAnd(is_positive(B, args(x)[1]), is_positive(B, args(x)[2])), PyTrue))),
            Then(Under(Bool3(head(x) = Pow),
                    Unpack(x, 2, RetIf(is_positive(B, args(x)[1]), PyTrue))),
            Cont))))),
    Then(LET val == complex_enclosure(x)
         IN WithEnc(val,
                Then(RetIf(Bool3(ImagIsZero(val) /\ val.rl > 0), PyTrue),
                Then(RetIf(Bool3(ImagNotZero(val) \/ val.rh <= 0), PyFalse),
                Cont))),
    PyNone)))))))

Brain_is_negative(B, x) ==
    Then(RetIf(Bool3(is_integer_atom(x)), Bool3(x.i < 0)),
    Then(RetIf(Bool3(x \in positive_real_constants), PyFalse),
    Then(RetIf(Known(B, Ap2(Less, x, Zero)), PyTrue),
    Then(RetIf(Known(B, Ap2(GreaterEqual, x, Zero)), PyFalse),
    Then(RetIf(Known(B, Ap2(Greater, x, Zero)), PyFalse),
    Then(LET val == complex_enclosure(x)
         IN WithEnc(val,
                Then(RetIf(Bool3(ImagIsZero(val) /\ val.rh < 0), PyTrue),
                Then(RetIf(Bool3(ImagNotZero(val) \/ val.rl >= 0), PyFalse),
                Cont))),
    PyNone))))))

Brain_is_nonpositive(B, x) ==
    Then(RetIf(Bool3(is_integer_atom(x)), Bool3(x.i <= 0)),
    Then(RetIf(Bool3(x \in positive_real_constants), PyFalse),
    Then(RetIf(Known(B, Ap2(LessEqual, x, Zero)), PyTrue),
    Then(RetIf(Known(B, Ap2(Less, x, Zero)), PyTrue),
    Then(RetIf(Known(B, Ap2(Greater, x, Zero)), PyFalse),
    Then(LET val == complex_enclosure(x)
         IN WithEnc(val,
                Then(RetIf(Bool3(ImagIsZero(val) /\ val.rh <= 0), PyTrue),
                Then(RetIf(Bool3(ImagNotZero(val) \/ val.rl > 0), PyFalse),
                Cont))),
    PyNone))))))

\* v in [0, 1, 4, 9, ..., 100]
IsSmallSquare(v) == \E r \in 0..10 : r * r = v

Brain_is_integer(B, x) ==
    Then(RetIf(Bool3(is_integer_atom(x)), PyTrue),
    Then(RetIf(Known(B, Ap2(Element, x, ZZ)), PyTrue),
    Then(RetIf(Known(B, Ap2(NotElement, x, ZZ)), PyFalse),
    Then(Under(Bool3(head(x) \in {Pos, Neg, Add, Sub, Mul}),
            RetIf(PyAll([j \in 1..nargs(x) |-> is_integer(B, args(x)[j])]), PyTrue)),
    Then(Under(Bool3(head(x) = Pow),
            Unpack(x, 2, RetIf(PyAnd(is_integer(B, args(x)[1]),
                               PyAnd(is_integer(B, args(x)[2]), is_nonnegative(B, args(x)[2]))), PyTrue))),
    Then(Under(Bool3(head(x) = Factorial),
            Unpack(x, 1, RetIf(PyAnd(is_integer(B, args(x)[1]), is_nonnegative(B, args(x)[1])), PyTrue))),
    Then(RetIf(Bool3(x \in complex_constants), PyFalse),
    Then(LET val == complex_enclosure(x)
         IN WithEnc(val, RetIf(Bool3(~ContainsInteger(val)), PyFalse)),
    Then(RetIf(PyOr(is_infinity(B, x), Bool3(x = Undefined)), PyFalse),
    PyNone)))))))))

Brain_is_rational(B, x) ==
    Then(RetIf(is_integer(B, x), PyTrue),
    Then(RetIf(Known(B, Ap2(Element, x, QQ)), PyTrue),
    Then(RetIf(Known(B, Ap2(NotElement, x, QQ)), PyFalse),
    Then(RetIf(Bool3(x = Pi \/ x = ConstE), PyFalse),
    Then(Under(Bool3(head(x) \in {Pos, Neg, Add, Sub, Mul}),
            RetIf(PyAll([j \in 1..nargs(x) |-> is_rational(B, args(x)[j])]), PyTrue)),
    Then(Under(Bool3(head(x) = Div),
            Unpack(x, 2, RetIf(PyAnd(is_rational(B, args(x)[1]),
                               PyAnd(is_rational(B, args(x)[2]), is_not_zero(B, args(x)[2]))), PyTrue))),
    Then(Under(Bool3(head(x) = Pow),
            Unpack(x, 2, RetIf(PyAnd(is_rational(B, args(x)[1]),
                               PyAnd(is_integer(B, args(x)[2]),
                                     PyOr(is_not_zero(B, args(x)[1]), is_nonnegative(B, args(x)[2])))), PyTrue))),
    Then(Under(Bool3(head(x) = Sqrt),
            Unpack(x, 1,
                Under(Bool3(is_integer_atom(args(x)[1])),
                    Then(RetIf(Bool3(args(x)[1].i < 0), PyFalse),
                    Then(RetIf(Bool3(args(x)[1].i <= 100), Bool3(IsSmallSquare(args(x)[1].i))),
                    Cont))))),
    Then(RetIf(PyOr(is_infinity(B, x), Bool3(x = Undefined)), PyFalse),
    PyNone)))))))))

Brain_is_real(B, x) ==
    Then(RetIf(is_rational(B, x), PyTrue),
    Then(RetIf(Known(B, Ap2(Element, x, RR)), PyTrue),
    Then(RetIf(Known(B, Ap2(NotElement, x, RR)), PyFalse),
    Then(RetIf(Bool3(x \in {Pi, ConstGamma, ConstE, ConstCatalan}), PyTrue),
    Then(RetIf(Bool3(x = ConstI), PyFalse),
    Then(Under(Bool3(head(x) \in {Pos, Neg, Add, Sub, Mul, Exp, Sin, Cos}),
            RetIf(PyAll([j \in 1..nargs(x) |-> is_real(B, args(x)[j])]), PyTrue)),
    Then(Under(Bool3(head(x) = Div),
            Unpack(x, 2, RetIf(PyAnd(is_real(B, args(x)[1]),
                               PyAnd(is_real(B, args(x)[2]), is_not_zero(B, args(x)[2]))), PyTrue))),
    Then(Under(Bool3(head(x) = Sqrt),
            Unpack(x, 1, RetIf(PyAnd(is_real(B, args(x)[1]), is_nonnegative(B, args(x)[1])), PyTrue))),
    Then(Under(Bool3(head(x) = Log),
            Unpack(x, 1, RetIf(PyAnd(is_real(B, args(x)[1]), is_positive(B, args(x)[1])), PyTrue))),
    Then(Under(Bool3(head(x) = Pow),
            Unpack(x, 2,
                Under(PyAnd(is_real(B, args(x)[1]), is_real(B, args(x)[2])),
                    Then(RetIf(PyAnd(is_positive(B, args(x)[1]), is_positive(B, args(x)[2])), PyTrue),
                    Then(RetIf(PyAnd(is_not_zero(B, args(x)[1]), is_integer(B, args(x)[2])), PyTrue),
                    Then(RetIf(PyAnd(is_integer(B, args(x)[2]), is_nonnegative(B, args(x)[2])), PyTrue),
                    Cont)))))),
    Then(LET v == complex_enclosure(x)
         IN WithEnc(v,
                Then(RetIf(Bool3(ImagIsZero(v)), PyTrue),
                Then(RetIf(Bool3(ImagNotZero(v)), PyFalse),
                Cont))),
    Then(RetIf(PyOr(is_infinity(B, x), Bool3(x = Undefined)), PyFalse),
    PyNone))))))))))))

Brain_is_complex(B, x) ==
    Then(RetIf(is_real(B, x), PyTrue),
    Then(RetIf(Bool3(x = ConstI), PyTrue),
    Then(RetIf(Known(B, Ap2(Element, x, CC)), PyTrue),
    Then(RetIf(Known(B, Ap2(NotElement, x, CC)), PyFalse),
    Then(Under(Bool3(head(x) \in {Pos, Neg, Add, Sub, Mul, Sqrt, Exp, Sin, Cos}),
            RetIf(PyAll([j \in 1..nargs(x) |-> is_complex(B, args(x)[j])]), PyTrue)),
    Then(Under(Bool3(head(x) = Div),
            Unpack(x, 2, RetIf(PyAnd(is_complex(B, args(x)[1]),
                               PyAnd(is_complex(B, args(x)[2]), is_not_zero(B, args(x)[2]))), PyTrue))),
    Then(Under(Bool3(head(x) = Pow),
            Unpack(x, 2, RetIf(PyAnd(is_complex(B, args(x)[1]),
                               PyAnd(is_complex(B, args(x)[2]),
                                     PyOr(is_not_zero(B, args(x)[1]),
                                          PyAnd(is_real(B, args(x)[2]), is_positive(B, args(x)[2]))))), PyTrue))),
    Then(Under(Bool3(head(x) = Log),
            Unpack(x, 1, RetIf(PyAnd(is_complex(B, args(x)[1]), is_not_zero(B, args(x)[1])), PyTrue))),
    Then(RetIf(PyOr(is_infinity(B, x), Bool3(x = Undefined)), PyFalse),
    PyNone)))))))))

\* a test for extended real numbers that forgets the infinities
is_extended_real_finite(B, x) == is_real(B, x)
\* Brain.is_extended_real
Brain_is_extended_real(B, x) ==
    Then(RetIf(Bool3(x = Infinity), PyTrue),
    Then(RetIf(Bool3(x = NegInfinity), PyTrue),
    LET v == is_real(B, x)
    IN Then(RetIf(v, PyTrue),
       Then(RetIf(PyAnd(Bool3(v = PyFalse), is_complex(B, x)), PyFalse),
       PyNone))))

----------------------------------------------------------------------------
(* The exact algebraic backend (pygrim.algebraic.alg), not part of the      *)
(* sources: exact arithmetic, here on the Gaussian integers; values that    *)
(* leave them are outside the model.                                        *)

AlgOk(re, im) == [st |-> "ok", re |-> re, im |-> im]
\* ValueError or NotImplementedError
AlgErr == [st |-> "valerr", re |-> 0, im |-> 0]
AlgUnmodelled == [st |-> "unmodelled", re |-> 0, im |-> 0]

RECURSIVE evaluate_alg(_)
RECURSIVE alg_fold(_, _, _, _)

\* the loops of the Add and Mul branches: acc op= evaluate_alg(x) for x in ts[i..]
alg_fold(h, ts, i, acc) ==
    IF i > Len(ts) THEN acc
    ELSE LET v == evaluate_alg(ts[i])
         IN IF v.st # "ok" THEN v
            ELSE IF h = Add THEN alg_fold(h, ts, i + 1, AlgOk(acc.re + v.re, acc.im + v.im))
            ELSE alg_fold(h, ts, i + 1, AlgOk(acc.re * v.re - acc.im * v.im, acc.re * v.im + acc.im * v.re))

\* Brain.evaluate_alg
evaluate_alg(expr) ==
    IF is_atom(expr) THEN
        (IF is_integer_atom(expr) THEN AlgOk(expr.i, 0)
         ELSE IF expr = ConstI THEN AlgOk(0, 1)
         ELSE IF expr = GoldenRatio THEN AlgUnmodelled
         ELSE AlgErr)
    ELSE IF head(expr) \in {Pos, Neg, Re, Im} THEN
        (IF nargs(expr) # 1 THEN AlgErr
         ELSE LET v == evaluate_alg(args(expr)[1])
              IN IF v.st # "ok" THEN v
                 ELSE IF head(expr) = Pos THEN v
                 ELSE IF head(expr) = Neg THEN AlgOk(-v.re, -v.im)
                 ELSE IF head(expr) = Re THEN AlgOk(v.re, 0)
                 ELSE AlgOk(v.im, 0))
    ELSE IF head(expr) = Sub THEN
        (IF nargs(expr) # 2 THEN AlgErr
         ELSE LET v == evaluate_alg(args(expr)[1])
                  w == evaluate_alg(args(expr)[2])
              IN IF v.st # "ok" THEN v
                 ELSE IF w.st # "ok" THEN w
                 ELSE AlgOk(v.re - w.re, v.im - w.im))
    ELSE IF head(expr) = Add THEN alg_fold(Add, args(expr), 1, AlgOk(0, 0))
    ELSE IF head(expr) = Mul THEN alg_fold(Mul, args(expr), 1, AlgOk(1, 0))
    ELSE IF head(expr) \in {Div, Sqrt, Pow, Sign, Abs, Exp, Cos, Sin, Tan, Cot, Sec, Csc} THEN AlgUnmodelled
    ELSE AlgErr

\* except (ValueError, NotImplementedError): return None
none_if_error(v) == IF v.st = "valerr" THEN [st |-> "none", re |-> 0, im |-> 0] ELSE v

\* Brain.evaluate_alg_or_None
evaluate_alg_or_None(expr) == none_if_error(evaluate_alg(expr))

\* a result outside the modelled fragment
Unmodelled == "Unmodelled"

\* aq is not None and bq is not None and aq != bq
Differ(aq, bq) ==
    IF aq = Raise \/ bq = Raise THEN Raise
    ELSE Bool3(aq # PyNone /\ bq # PyNone /\ aq # bq)

\* Brain.equal, lines 799-808: the numerical exclusion test
equal_numeric(a, b) ==
    LET val1 == complex_enclosure(a)
        val2 == complex_enclosure(b)
        val3 == complex_enclosure(Ap2(Sub, a, b))
    IN WithEnc(val1,
         WithEnc(val2,
           Then(RetIf(Bool3(~Overlaps(val1, val2)), PyFalse),
           IF val3.st # "ok" THEN Raise
           ELSE RetIf(Bool3(~ContainsZero(val3)), PyFalse))))

\* lines 820-824: val1 and val2 are compared when neither is None
same_alg(val1, val2) ==
    IF val1.st = "unmodelled" THEN Unmodelled
    ELSE IF val1.st = "none" THEN Cont
    ELSE IF val2.st = "unmodelled" THEN Unmodelled
    ELSE IF val2.st = "none" THEN Cont
    ELSE Bool3(val1.re = val2.re /\ val1.im = val2.im)

\* Brain.equal, lines 810-828: exact computation (the limits are saved, set and
\* restored around it; see EqEnter, EqSetLimits, EqFinally)
Brain_equal_exact(a, b) == same_alg(evaluate_alg_or_None(a), evaluate_alg_or_None(b))

\* Brain.equal, lines 785-808: syntactic equality, facts, numerical exclusion
Brain_equal_before(B, a, b) ==
    Then(RetIf(Bool3(a = b), PyTrue),
    Then(RetIf(Bool3(is_integer_atom(a) /\ is_integer_atom(b)), PyFalse),
    Then(RetIf(Known(B, Ap2(Equal, a, b)), PyTrue),
    Then(RetIf(Known(B, Ap2(Equal, b, a)), PyTrue),
    Then(RetIf(Known(B, Ap2(NotEqual, a, b)), PyFalse),
    Then(RetIf(Known(B, Ap2(NotEqual, b, a)), PyFalse),
    equal_numeric(a, b)))))))

\* Brain.equal, lines 830-855: domain exclusions
Brain_equal_after(B, a, b) ==
    Then(RetIf(Differ(is_rational(B, a), is_rational(B, b)), PyFalse),
    Then(Under(PyAnd(is_rational(B, a), is_rational(B, b)),
            RetIf(Differ(is_integer(B, a), is_integer(B, b)), PyFalse)),
    Then(RetIf(Differ(is_complex(B, a), is_complex(B, b)), PyFalse),
    Then(Under(PyAnd(is_complex(B, a), is_complex(B, b)),
            RetIf(Differ(is_real(B, a), is_real(B, b)), PyFalse)),
    Then(RetIf(Differ(is_infinity(B, a), is_infinity(B, b)), PyFalse),
    PyNone)))))

\* Brain.equal
Brain_equal(B, a, b) == Then(equal_before(B, a, b), Then(equal_exact(a, b), equal_after(B, a, b)))


\* Brain.is_algebraic (the Exp branch simplifies v / (Pi * ConstI), which needs
\* the rules of Div and Mul)
Brain_is_algebraic(B, x) ==
    Then(RetIf(is_integer(B, x), PyTrue),
    Then(RetIf(Known(B, Ap2(Element, x, AlgebraicNumbers)), PyTrue),
    Then(RetIf(Known(B, Ap2(NotElement, x, AlgebraicNumbers)), PyFalse),
    Then(RetIf(Bool3(x = Pi \/ x = ConstE), PyFalse),
    Then(RetIf(Bool3(x = ConstI \/ x = GoldenRatio), PyTrue),
    Then(Under(Bool3(head(x) \in {Pos, Neg, Add, Sub, Mul}),
            RetIf(PyAll([j \in 1..nargs(x) |-> is_algebraic(B, args(x)[j])]), PyTrue)),
    Then(Under(Bool3(head(x) = Div),
            Unpack(x, 2, RetIf(PyAnd(is_algebraic(B, args(x)[1]),
                               PyAnd(is_algebraic(B, args(x)[2]), is_not_zero(B, args(x)[2]))), PyTrue))),
    Then(Under(Bool3(head(x) = Pow),
            Unpack(x, 2,
                Then(Under(is_algebraic(B, args(x)[1]),
                        Then(RetIf(PyAnd(is_rational(B, args(x)[2]),
                                         PyOr(is_not_zero(B, args(x)[1]), is_nonnegative(B, args(x)[2]))), PyTrue),
                        Then(RetIf(PyAnd(is_algebraic(B, args(x)[2]),
                                   PyAnd(EqFalse(is_rational(B, args(x)[2])),
                                   PyAnd(is_not_zero(B, args(x)[1]),
                                         EqFalse(equal(B, args(x)[1], One))))), PyFalse),
                        Cont))),
                Then(RetIf(PyAnd(is_complex(B, args(x)[1]),
                           PyAnd(EqFalse(is_algebraic(B, args(x)[1])),
                           PyAnd(is_rational(B, args(x)[2]), is_not_zero(B, args(x)[2])))), PyFalse),
                Cont)))),
    Then(Under(Bool3(head(x) = Sqrt),
            Unpack(x, 1, is_algebraic(B, args(x)[1]))),
    Then(Under(Bool3(head(x) = Exp),
            Unpack(x, 1,
                Then(RetIf(PyAnd(is_algebraic(B, args(x)[1]), is_not_zero(B, args(x)[1])), PyFalse),
                Unmodelled))),
    Then(Under(Bool3(head(x) \in {Sin, Cos, Tan, Cot, Csc, Sec}),
            Unpack(x, 1, RetIf(PyAnd(is_algebraic(B, args(x)[1]), is_not_zero(B, args(x)[1])), PyFalse))),
    Then(Under(Bool3(head(x) = Log),
            Unpack(x, 1, RetIf(PyAnd(is_algebraic(B, args(x)[1]),
                                     EqFalse(equal(B, args(x)[1], One))), PyFalse))),
    Then(RetIf(PyOr(is_infinity(B, x), Bool3(x = Undefined)), PyFalse),
    PyNone)))))))))))))

----------------------------------------------------------------------------
(* Functions that change the session.  They take the mutable part of the    *)
(* session (the cache, and two records kept for the analysis: every call    *)
(* of simple with its result, and the terms whose rule is running) and      *)
(* return it with their value: v the value, s the session, x an exception   *)
(* left the function, c the statement fell through.                         *)

Ret(v, s) == [v |-> v, s |-> s, x |-> FALSE, c |-> FALSE]
Fall(s) == [v |-> NoneV, s |-> s, x |-> FALSE, c |-> TRUE]
Exc(s) == [v |-> NoneV, s |-> s, x |-> TRUE, c |-> FALSE]

\* statement m, then the rest of the body
ThenS(m, K(_)) == IF m.c THEN K(m.s) ELSE m
\* r = m; the rest of the body uses r
Bind(m, K(_)) == IF m.x THEN m ELSE K(m)
\* the value p of a function that only reads the session
Lift(p, s) == IF p = Raise THEN Exc(s) ELSE IF p = Cont THEN Fall(s) ELSE Ret(p, s)

InSeq(q, t) == \E j \in 1..Len(q) : q[j] = t
SeqRange(q) == {q[j] : j \in 1..Len(q)}

\* record a call simple(t) = r
Record(s, t, r, how, running, stored) ==
    [s EXCEPT !.calls = @ \cup {[t |-> t, r |-> r, how |-> how, running |-> running, stored |-> stored]}]

\* names f for which hasattr(self, "simple_" + f) holds and the method is modelled
ModelledRules == {"Not", "And", "Or", "Implies", "Equal", "NotEqual", "Element", "NotElement",
                  "LessEqual", "Less", "GreaterEqual", "Greater",
                  "Pos", "Parentheses", "Brackets", "Braces", "Neg", "Add", "Sub", "Mul",
                  "Where", "Pow", "Sqrt"}
\* the other simple_ methods of Brain
OtherRules == {"Exp_two_pi_i_k_n", "Div", "Exp", "Sin", "Cos", "Abs",
               "Re", "Im", "Arg", "Floor", "Ceil", "DirichletCharacter", "Zeros", "Det", "Spectrum",
               "SingularValues", "Sum", "RiemannZeta", "Cases", "AiryAi", "AiryBi", "Erf", "Erfc",
               "HurwitzZeta", "DigammaFunction", "Gamma", "Factorial", "RisingFactorial", "hypergeometric",
               "hypergeometric_2", "Hypergeometric0F1", "Hypergeometric0F1Regularized", "Hypergeometric1F1",
               "Hypergeometric1F1Regularized", "Hypergeometric2F1", "Hypergeometric2F1Regularized",
               "HypergeometricPFQ", "HypergeometricPFQRegularized", "ModularJ", "DedekindEtaEpsilon",
               "ModularLambda", "DedekindEta", "EllipticK", "EllipticE"}
\* the result of a rule outside the modelled fragment
UnmodelledV == [k |-> "unmodelled", s |-> "", i |-> 0, a |-> <<>>]

RECURSIVE SimpleArgs(_, _, _, _)

\* [self.simple(arg) for arg in ts[i..]]
SimpleArgs(B, s, ts, i) ==
    IF i > Len(ts) THEN Ret(<<>>, s)
    ELSE Bind(Simple(B, s, ts[i]), LAMBDA r :
         Bind(SimpleArgs(B, r.s, ts, i + 1), LAMBDA q :
         Ret(<<r.v>> \o q.v, q.s)))

\* literal True_/False_ for a decided relation, rebuilt otherwise
Decided(p, s, rebuilt) ==
    IF p = Raise THEN Exc(s)
    ELSE IF p = PyTrue THEN Ret(True_, s)
    ELSE IF p = PyFalse THEN Ret(False_, s)
    ELSE Ret(rebuilt, s)

\* v = self.real_enclosure(a - b); if v is not None: <inner>
WithReal(v, inner) == IF v.st = "ok" THEN inner ELSE Cont

\* Brain.simple_Not
simple_Not(B, s, ts) ==
    IF Len(ts) # 1 THEN Exc(s)
    ELSE Bind(Simple(B, s, ts[1]), LAMBDA r :
         LET x == r.v
         IN Ret(IF x = True_ THEN False_
                ELSE IF x = False_ THEN True_
                ELSE IF head(x) = NotEqual /\ nargs(x) = 2 THEN Apply(Equal, args(x))
                ELSE IF head(x) = Equal /\ nargs(x) = 2 THEN Apply(NotEqual, args(x))
                ELSE IF head(x) = NotElement /\ nargs(x) = 2 THEN Apply(Element, args(x))
                ELSE IF head(x) = Element /\ nargs(x) = 2 THEN Apply(NotElement, args(x))
                ELSE Ap1(Not, x), r.s))

\* [arg for arg in ts if arg != drop]
Without(ts, drop) == SelectSeq(ts, LAMBDA a : a # drop)

\* Brain.simple_And
simple_And(B, s, ts) ==
    Bind(SimpleArgs(B, s, ts, 1), LAMBDA q :
    LET rest == Without(q.v, True_)
    IN Ret(IF InSeq(q.v, False_) THEN False_
           ELSE IF Len(rest) = 0 THEN True_
           ELSE IF Len(rest) = 1 THEN rest[1]
           ELSE Apply(And, rest), q.s))

\* Brain.simple_Or
simple_Or(B, s, ts) ==
    Bind(SimpleArgs(B, s, ts, 1), LAMBDA q :
    LET rest == Without(q.v, False_)
    IN Ret(IF InSeq(q.v, True_) THEN True_
           ELSE IF Len(rest) = 0 THEN False_
           ELSE IF Len(rest) = 1 THEN rest[1]
           ELSE Apply(Or, rest), q.s))

\* Brain.simple_Implies
simple_Implies(B, s, ts) ==
    Bind(SimpleArgs(B, s, ts, 1), LAMBDA q :
    IF Len(q.v) # 2 THEN Exc(q.s)
    ELSE Ret(IF q.v[1] = False_ THEN True_
             ELSE IF q.v[1] = True_ THEN q.v[2]
             ELSE Apply(Implies, q.v), q.s))

\* the pairs (i, j), i < j, in the order of the two nested loops
PairsInOrder(n) ==
    LET P == {<<i, j>> \in (1..n) \X (1..n) : i < j}
        before(p, q) == p[1] < q[1] \/ (p[1] = q[1] /\ p[2] < q[2])
    IN [k \in 1..Cardinality(P) |-> CHOOSE p \in P : Cardinality({q \in P : before(q, p)}) = k - 1]

\* all(self.equal(args[0], arg) for arg in args[1:])
AllEqualFirst(B, as) == PyAll([j \in 1..(Len(as) - 1) |-> equal(B, as[1], as[j + 1])])
\* some pair, in loop order, has self.equal(a, b) == False
SomePairDiffers(B, as) ==
    LET ps == PairsInOrder(Len(as))
    IN PyAny([k \in 1..Len(ps) |-> EqFalse(equal(B, as[ps[k][1]], as[ps[k][2]]))])

\* Brain.simple_Equal
simple_Equal(B, s, ts) ==
    Bind(SimpleArgs(B, s, ts, 1), LAMBDA q :
    IF Len(q.v) < 2 THEN Exc(q.s)
    ELSE Decided(Then(RetIf(AllEqualFirst(B, q.v), PyTrue),
                 Then(RetIf(SomePairDiffers(B, q.v), PyFalse),
                 PyNone)), q.s, Apply(Equal, q.v)))

\* Brain.simple_NotEqual
simple_NotEqual(B, s, ts) ==
    Bind(SimpleArgs(B, s, ts, 1), LAMBDA q :
    IF Len(q.v) # 2 THEN Ret(Apply(NotEqual, q.v), q.s)
    ELSE Decided(Then(RetIf(AllEqualFirst(B, q.v), PyFalse),
                 Then(RetIf(SomePairDiffers(B, q.v), PyTrue),
                 PyNone)), q.s, Apply(NotEqual, q.v)))

\* Brain.simple_Element
simple_Element(B, s, ts) ==
    Bind(SimpleArgs(B, s, ts, 1), LAMBDA q :
    IF Len(q.v) # 2 THEN Exc(q.s)
    ELSE Bind(element(B, q.s, q.v[1], q.v[2]), LAMBDA e :
         Decided(e.v, e.s, Apply(Element, q.v))))

\* Brain.simple_NotElement
simple_NotElement(B, s, ts) ==
    Bind(SimpleArgs(B, s, ts, 1), LAMBDA q :
    IF Len(q.v) # 2 THEN Exc(q.s)
    ELSE Bind(element(B, q.s, q.v[1], q.v[2]), LAMBDA e :
         Decided(PyNot3(e.v), e.s, Apply(NotElement, q.v))))

\* the decision of simple_LessEqual on simplified a, b
decide_LessEqual(B, a, b) ==
    Then(RetIf(Bool3(is_integer_atom(a) /\ is_integer_atom(b)), Bool3(a.i <= b.i)),
    Then(Under(PyAnd(is_real(B, a), is_real(B, b)),
            LET v == real_enclosure(Ap2(Sub, a, b))
            IN WithReal(v, Then(RetIf(Bool3(v.fin /\ v.rh <= 0), PyTrue),
                           Then(RetIf(Bool3(v.fin /\ v.rl > 0), PyFalse),
                           Cont)))),
    Then(Under(PyAnd(is_extended_real(B, a), is_extended_real(B, b)),
            Then(RetIf(equal(B, a, b), PyTrue),
            Then(RetIf(Bool3(a = NegInfinity), PyTrue),
            Then(RetIf(Bool3(b = Infinity), PyTrue),
            Then(RetIf(PyAnd(is_real(B, a), Bool3(b = NegInfinity)), PyFalse),
            Then(RetIf(PyAnd(is_real(B, b), Bool3(a = Infinity)), PyFalse),
            Then(RetIf(Bool3(a = Infinity /\ b = NegInfinity), PyFalse),
            Cont))))))),
    PyNone)))

\* the decision of simple_Less on simplified a, b
decide_Less(B, a, b) ==
    Then(RetIf(Bool3(is_integer_atom(a) /\ is_integer_atom(b)), Bool3(a.i < b.i)),
    Then(Under(PyAnd(is_real(B, a), is_real(B, b)),
            LET v == real_enclosure(Ap2(Sub, a, b))
            IN WithReal(v, Then(RetIf(Bool3(v.fin /\ v.rh < 0), PyTrue),
                           Then(RetIf(Bool3(v.fin /\ v.rl >= 0), PyFalse),
                           Cont)))),
    Then(Under(PyAnd(is_extended_real(B, a), is_extended_real(B, b)),
            Then(RetIf(equal(B, a, b), PyFalse),
            Then(RetIf(PyAnd(Bool3(a = NegInfinity), is_real(B, b)), PyTrue),
            Then(RetIf(Bool3(a = NegInfinity /\ b = Infinity), PyTrue),
            Then(RetIf(PyAnd(is_real(B, a), Bool3(b = Infinity)), PyTrue),
            Then(RetIf(Bool3(a = Infinity), PyFalse),
            Then(RetIf(Bool3(b = NegInfinity), PyFalse),
            Cont))))))),
    PyNone)))

\* the decision of simple_GreaterEqual on simplified a, b
decide_GreaterEqual(B, a, b) ==
    Then(RetIf(Bool3(is_integer_atom(a) /\ is_integer_atom(b)), Bool3(a.i >= b.i)),
    Then(Under(PyAnd(is_real(B, a), is_real(B, b)),
            LET v == real_enclosure(Ap2(Sub, a, b))
            IN WithReal(v, Then(RetIf(Bool3(v.fin /\ v.rl >= 0), PyTrue),
                           Then(RetIf(Bool3(v.fin /\ v.rh < 0), PyFalse),
                           Cont)))),
    Then(Under(PyAnd(is_extended_real(B, a), is_extended_real(B, b)),
            Then(RetIf(equal(B, a, b), PyTrue),
            Then(RetIf(Bool3(b = NegInfinity), PyTrue),
            Then(RetIf(Bool3(a = Infinity), PyTrue),
            Then(RetIf(PyAnd(is_real(B, b), Bool3(a = NegInfinity)), PyFalse),
            Then(RetIf(PyAnd(is_real(B, a), Bool3(b = Infinity)), PyFalse),
            Then(RetIf(Bool3(b = Infinity /\ a = NegInfinity), PyFalse),
            Cont))))))),
    PyNone)))

\* the decision of simple_Greater on simplified a, b
decide_Greater(B, a, b) ==
    Then(RetIf(Bool3(is_integer_atom(a) /\ is_integer_atom(b)), Bool3(a.i > b.i)),
    Then(Under(PyAnd(is_real(B, a), is_real(B, b)),
            LET v == real_enclosure(Ap2(Sub, a, b))
            IN WithReal(v, Then(RetIf(Bool3(v.fin /\ v.rl > 0), PyTrue),
                           Then(RetIf(Bool3(v.fin /\ v.rh <= 0), PyFalse),
                           Cont)))),
    Then(Under(PyAnd(is_extended_real(B, a), is_extended_real(B, b)),
            Then(RetIf(equal(B, a, b), PyFalse),
            Then(RetIf(PyAnd(Bool3(b = NegInfinity), is_real(B, a)), PyTrue),
            Then(RetIf(Bool3(b = NegInfinity /\ a = Infinity), PyTrue),
            Then(RetIf(PyAnd(is_real(B, b), Bool3(a = Infinity)), PyTrue),
            Then(RetIf(Bool3(b = Infinity), PyFalse),
            Then(RetIf(Bool3(a = NegInfinity), PyFalse),
            Cont))))))),
    PyNone)))

\* Brain.simple_LessEqual
simple_LessEqual(B, s, ts) ==
    Bind(SimpleArgs(B, s, ts, 1), LAMBDA q :
    IF Len(q.v) # 2 THEN Ret(Apply(LessEqual, q.v), q.s)
    ELSE Decided(decide_LessEqual(B, q.v[1], q.v[2]), q.s, Apply(LessEqual, q.v)))

\* Brain.simple_Less
simple_Less(B, s, ts) ==
    Bind(SimpleArgs(B, s, ts, 1), LAMBDA q :
    IF Len(q.v) # 2 THEN Ret(Apply(Less, q.v), q.s)
    ELSE Decided(decide_Less(B, q.v[1], q.v[2]), q.s, Apply(Less, q.v)))

\* Brain.simple_GreaterEqual
simple_GreaterEqual(B, s, ts) ==
    Bind(SimpleArgs(B, s, ts, 1), LAMBDA q :
    IF Len(q.v) # 2 THEN Ret(Apply(GreaterEqual, q.v), q.s)
    ELSE Decided(decide_GreaterEqual(B, q.v[1], q.v[2]), q.s, Apply(GreaterEqual, q.v)))

\* Brain.simple_Greater
simple_Greater(B, s, ts) ==
    Bind(SimpleArgs(B, s, ts, 1), LAMBDA q :
    IF Len(q.v) # 2 THEN Ret(Apply(Greater, q.v), q.s)
    ELSE Decided(decide_Greater(B, q.v[1], q.v[2]), q.s, Apply(Greater, q.v)))

\* Brain.simple_Pos, simple_Parentheses, simple_Brackets, simple_Braces
simple_Pos(B, s, ts) == IF Len(ts) # 1 THEN Exc(s) ELSE Simple(B, s, ts[1])

\* Brain.simple_Neg
simple_Neg(B, s, ts) ==
    IF Len(ts) # 1 THEN Exc(s)
    ELSE Bind(Simple(B, s, ts[1]), LAMBDA r :
         LET x == r.v
         IN IF head(x) = Neg THEN (IF nargs(x) # 1 THEN Exc(r.s) ELSE Ret(args(x)[1], r.s))
            ELSE IF head(x) = Sub THEN (IF nargs(x) # 2 THEN Exc(r.s) ELSE Ret(Ap2(Sub, args(x)[2], args(x)[1]), r.s))
            ELSE IF is_integer_atom(x) THEN Ret(ExprInt(-x.i), r.s)
            ELSE Ret(Ap1(Neg, x), r.s))

\* getattr(self, "simple_" + f)(*args)
Rule(B, s, f, ts) ==
    CASE f = "Not" -> simple_Not(B, s, ts)
      [] f = "And" -> simple_And(B, s, ts)
      [] f = "Or" -> simple_Or(B, s, ts)
      [] f = "Implies" -> simple_Implies(B, s, ts)
      [] f = "Equal" -> simple_Equal(B, s, ts)
      [] f = "NotEqual" -> simple_NotEqual(B, s, ts)
      [] f = "Element" -> simple_Element(B, s, ts)
      [] f = "NotElement" -> simple_NotElement(B, s, ts)
      [] f = "LessEqual" -> simple_LessEqual(B, s, ts)
      [] f = "Less" -> simple_Less(B, s, ts)
      [] f = "GreaterEqual" -> simple_GreaterEqual(B, s, ts)
      [] f = "Greater" -> simple_Greater(B, s, ts)
      [] f \in {"Pos", "Parentheses", "Brackets", "Braces"} -> simple_Pos(B, s, ts)
      [] f = "Neg" -> simple_Neg(B, s, ts)
      [] f = "Add" -> simple_Add(B, s, ts)
      [] f = "Sub" -> simple_Sub(B, s, ts)
      [] f = "Mul" -> simple_Mul(B, s, ts)
      [] f = "Where" -> simple_Where(B, s, ts)
      [] f = "Pow" -> simple_Pow(B, s, ts)
      [] f = "Sqrt" -> simple_Sqrt(B, s, ts)
      [] OTHER -> Ret(UnmodelledV, s)

----------------------------------------------------------------------------
(* Brain.simple *)

EmptyMap == [z \in {} |-> NoneV]
CacheSet(s, expr, v) == [s EXCEPT !.cache = (expr :> v) @@ @]
Push(s, expr) == [s EXCEPT !.stack = Append(@, expr)]
Pop(s) == [s EXCEPT !.stack = SubSeq(@, 1, Len(@) - 1)]
\* a session that does not keep the result of the rule
Store_skipped(s, input_expr, expr) == s
\* self.simple_cache[input_expr] = expr
Store(s, input_expr, expr) == CacheSet(s, input_expr, expr)
\* v = self.simple_cache[expr]; if v is None: return expr; return v
Lookup(s, expr) ==
    LET v == s.cache[expr]
    IN IF v = NoneV
       THEN Ret(expr, Record(s, expr, expr, "inprogress", InSeq(s.stack, expr), FALSE))
       ELSE Ret(v, Record(s, expr, v, "hit", InSeq(s.stack, expr), TRUE))

\* lines 376-378 (3762-3764): the result r of the rule is stored and returned
simple_store(r, s, expr) ==
    IF r.x THEN Exc(Pop(r.s))
    ELSE Ret(r.v, Record(Store(Pop(r.s), expr, r.v), expr, r.v, "computed", InSeq(s.stack, expr),
                         expr \in DOMAIN Store(Pop(r.s), expr, r.v).cache
                         /\ Store(Pop(r.s), expr, r.v).cache[expr] = r.v))

\* the common head of Brain.simple and FungrimBrain.simple, lines 346-361 (3713-3728): facts, atoms,
\* cache; it falls through to the rule with the entry of expr in progress
simple_head(B, s, expr) ==
    IF expr \in B.inferences THEN Ret(True_, Record(s, expr, True_, "fact", InSeq(s.stack, expr), FALSE))
    ELSE IF is_atom(expr) THEN Ret(expr, Record(s, expr, expr, "atom", FALSE, FALSE))
    ELSE IF expr \in DOMAIN s.cache THEN Lookup(s, expr)
    ELSE Fall(Push(CacheSet(s, expr, NoneV), expr))

\* Brain.simple, lines 363-374: dispatch on the head
Brain_dispatch(B, s, expr) ==
    IF is_symbol(head(expr)) THEN
        (IF head(expr).s \in ModelledRules \cup OtherRules
         THEN Rule(B, s, head(expr).s, args(expr))
         ELSE Bind(SimpleArgs(B, s, args(expr), 1), LAMBDA q :
              Ret(Apply(head(expr), q.v), q.s)))
    ELSE Ret(expr, s)

\* Brain.simple
Brain_simple(B, s, expr) ==
    ThenS(simple_head(B, s, expr), LAMBDA s1 : simple_store(Brain_dispatch(B, s1, expr), s, expr))

----------------------------------------------------------------------------
(* The knowledge-base rewriter *)

RECURSIVE bit_length(_)
bit_length(n) == IF n = 0 THEN 0 ELSE 1 + bit_length(n \div 2)
Magnitude(n) == IF n < 0 THEN -n ELSE n

\* the cost of an integer without its sign
integer_cost_unsigned(v) == 1 + bit_length(Magnitude(v))
\* 1 + v.bit_length() + (v<0)
integer_cost(v) == 1 + bit_length(Magnitude(v)) + (IF v < 0 THEN 1 ELSE 0)

RECURSIVE complexity(_, _)
RECURSIVE SumComplexity(_, _, _)
SumComplexity(B, ts, i) == IF i > Len(ts) THEN 0 ELSE complexity(B, ts[i]) + SumComplexity(B, ts, i + 1)

\* Brain.complexity
complexity(B, expr) ==
    IF expr \in DOMAIN B.penalty THEN B.penalty[expr]
    ELSE IF is_integer_atom(expr) THEN integer_cost(expr.i)
    ELSE IF is_atom(expr) THEN
        (IF expr \in {True_, False_} THEN 1
         ELSE IF expr \in {Add, Sub, Neg, Pos, Mul} THEN 10
         ELSE IF expr \in {Div, Sqrt, GoldenRatio, ConstI} THEN 20
         ELSE IF expr \in {Pi, ConstE, Pow, Exp, Log, Sin, Cos, Tan, Symbol("Sinh"), Cosh, Symbol("Tanh")} THEN 100
         ELSE IF expr \in {Symbol("Gamma"), Symbol("Erf"), Symbol("Erfc"), Symbol("Erfi"),
                           Symbol("RiemannZeta"), ConstGamma, ConstCatalan} THEN 1000
         ELSE 1000000)
    ELSE complexity(B, head(expr)) + 2 * SumComplexity(B, args(expr), 1) + 1

RECURSIVE replace(_, _)
RECURSIVE replace_each(_, _, _)
\* Expr.replace(rules), semantic=False
replace(t, rules) ==
    IF t \in DOMAIN rules THEN rules[t]
    ELSE IF is_atom(t) \/ DOMAIN rules = {} THEN t
    ELSE [t EXCEPT !.a = replace_each(t.a, rules, 1)]

\* arg.replace(rules) for arg in ts[i..]
replace_each(ts, rules, i) ==
    IF i > Len(ts) THEN <<>> ELSE <<replace(ts[i], rules)>> \o replace_each(ts, rules, i + 1)

NoMatch == [ok |-> FALSE, mv |-> EmptyMap]
RECURSIVE match_recursive(_, _, _, _)
RECURSIVE match_args(_, _, _, _, _)

\* for a, b in zip(expr_args, rule_args): match_recursive(a, b)
match_args(es, rs, fv, mv, i) ==
    IF i > Len(es) THEN [ok |-> TRUE, mv |-> mv]
    ELSE LET m == match_recursive(es[i], rs[i], fv, mv)
         IN IF ~m.ok THEN m ELSE match_args(es, rs, fv, m.mv, i + 1)

\* Brain.match.match_recursive; mv is match_values, ok is FALSE for ValueError
match_recursive(expr, rule, fv, mv) ==
    IF rule \in fv THEN
        (IF rule \in DOMAIN mv
         THEN (IF expr # mv[rule] THEN NoMatch ELSE [ok |-> TRUE, mv |-> mv])
         ELSE [ok |-> TRUE, mv |-> (rule :> expr) @@ mv])
    ELSE IF expr = rule THEN [ok |-> TRUE, mv |-> mv]
    ELSE IF head(expr) # head(rule) \/ head(expr) = NoneV \/ nargs(expr) # nargs(rule) THEN NoMatch
    ELSE match_args(args(expr), args(rule), fv, mv, 1)

\* the match, whatever the assumptions
match_unchecked(B, s, expr, rule, fv, assumptions) ==
    Ret(match_recursive(expr, rule, fv, EmptyMap), s)

\* Brain.match: the value is the match (ok) or None
match(B, s, expr, rule, fv, assumptions) ==
    LET m == match_recursive(expr, rule, fv, EmptyMap)
    IN IF ~m.ok THEN Ret(NoMatch, s)
       ELSE Bind(Simple(B, s, replace(assumptions, m.mv)), LAMBDA r :
            Ret(IF r.v = True_ THEN m ELSE NoMatch, r.s))

\* Brain.rewrite_fungrim(expr, id, recursive=False)
rewrite_fungrim(B, s, expr, id) ==
    LET entry == B.entries[id]
        lhs == args(entry.formula)[1]
        rhs == args(entry.formula)[2]
    IN IF head(entry.formula) # Equal \/ nargs(entry.formula) # 2 THEN Exc(s)
       ELSE Bind(match(B, s, expr, lhs, entry.variables, entry.assumptions), LAMBDA m :
            Ret(IF m.v.ok THEN replace(rhs, m.v.mv) ELSE expr, m.s))

RECURSIVE RewriteAll(_, _, _, _, _)
\* (self.rewrite_fungrim(expr, id, recursive=False), id) for id in ids[i..]
RewriteAll(B, s, expr, ids, i) ==
    IF i > Len(ids) THEN Ret(<<>>, s)
    ELSE Bind(rewrite_fungrim(B, s, expr, ids[i]), LAMBDA r :
         Bind(RewriteAll(B, r.s, expr, ids, i + 1), LAMBDA q :
         Ret(<<r.v>> \o q.v, q.s)))

\* min(exprs, key=complexity): the first of the cheapest candidates
MinByComplexity(B, cands) ==
    cands[CHOOSE j \in 1..Len(cands) :
            /\ \A k \in 1..Len(cands) : complexity(B, cands[j]) <= complexity(B, cands[k])
            /\ \A k \in 1..(j - 1) : complexity(B, cands[k]) > complexity(B, cands[j])]

\* FungrimBrain.simple.fungrim_simplify
fungrim_simplify(B, s, expr) ==
    IF expr \in DOMAIN B.expr_db THEN Ret(B.expr_db[expr], s)
    ELSE IF is_atom(expr) THEN Ret(expr, s)
    ELSE Bind(SimpleArgs(B, s, args(expr), 1), LAMBDA q :
         LET expr1 == Apply(head(expr), q.v)
         IN IF head(expr) \in DOMAIN B.match_db THEN
                Bind(RewriteAll(B, q.s, expr1, B.match_db[head(expr)], 1), LAMBDA c :
                LET expr2 == MinByComplexity(B, c.v)
                IN IF expr2 # expr1 /\ complexity(B, expr2) < complexity(B, expr1)
                   THEN Simple(B, c.s, expr2)
                   ELSE Ret(expr1, c.s))
            ELSE Ret(expr1, q.s))

\* FungrimBrain.simple, lines 3748-3760: the knowledge base, the rule, the knowledge base again
Fungrim_dispatch(B, s, input_expr) ==
    Bind(IF DOMAIN B.expr_db # {} THEN fungrim_simplify(B, s, input_expr) ELSE Ret(input_expr, s), LAMBDA r :
    LET expr == r.v
    IN IF is_symbol(head(expr)) /\ head(expr).s \in ModelledRules \cup OtherRules THEN
           Bind(Rule(B, r.s, head(expr).s, args(expr)), LAMBDA r2 :
           IF DOMAIN B.expr_db # {} /\ r2.v # expr THEN fungrim_simplify(B, r2.s, r2.v) ELSE r2)
       ELSE r)

\* FungrimBrain.simple
FungrimBrain_simple(B, s, expr) ==
    ThenS(simple_head(B, s, expr), LAMBDA s1 : simple_store(Fungrim_dispatch(B, s1, expr), s, expr))


----------------------------------------------------------------------------
(* Brain: order relations and membership *)

\* v == True_ -> True, v == False_ -> False, else None
Truth(r) == Ret(IF r.v = True_ THEN PyTrue ELSE IF r.v = False_ THEN PyFalse ELSE PyNone, r.s)

\* Brain.greater
Brain_greater(B, s, a, b) == Bind(Simple(B, s, Ap2(Greater, a, b)), LAMBDA r : Truth(r))
\* a comparison that lets equal operands pass for less
less_or_equal(B, s, a, b) == Bind(Simple(B, s, Ap2(LessEqual, a, b)), LAMBDA r : Truth(r))
\* Brain.less
Brain_less(B, s, a, b) == Bind(Simple(B, s, Ap2(Less, a, b)), LAMBDA r : Truth(r))
\* Brain.greater_equal
Brain_greater_equal(B, s, a, b) == Bind(Simple(B, s, Ap2(GreaterEqual, a, b)), LAMBDA r : Truth(r))
\* Brain.less_equal
Brain_less_equal(B, s, a, b) == Bind(Simple(B, s, Ap2(LessEqual, a, b)), LAMBDA r : Truth(r))

\* if not v: return v; <rest>
NotThen(v, rest) == IF v = Raise THEN Raise ELSE IF v # PyTrue THEN v ELSE rest
\* the same when the rest changes the session
NotThenS(m, K(_)) == IF m.x THEN m ELSE IF m.v # PyTrue THEN m ELSE K(m.s)

IsSmallPrime(n) == n \in {2, 3, 5, 7, 11, 13, 17, 19}

\* Brain.element, lines 906-932: facts and the number domains
element_domain(B, x, S) ==
    Then(RetIf(Known(B, Ap2(Element, x, S)), PyTrue),
    Then(RetIf(Known(B, Ap2(NotElement, x, S)), PyFalse),
    Then(RetIf(Bool3(S = CC), is_complex(B, x)),
    Then(RetIf(Bool3(S = RR), is_real(B, x)),
    Then(RetIf(Bool3(S = QQ), is_rational(B, x)),
    Then(RetIf(Bool3(S = ZZ), is_integer(B, x)),
    Then(RetIf(Bool3(S = HH), NotThen(is_complex(B, x), is_positive(B, Ap1(Im, x)))),
    Then(RetIf(Bool3(S = PP),
               NotThen(is_integer(B, x),
                   IF is_integer_atom(x) /\ x.i <= 20 THEN Bool3(IsSmallPrime(x.i)) ELSE PyNone)),
    Then(RetIf(Bool3(S = AlgebraicNumbers), is_algebraic(B, x)),
    Cont)))))))))

\* Brain.element, lines 955-981: the four kinds of interval
element_interval(B, s, x, S) ==
    LET h == head(S)
        a == args(S)[1]
        b == args(S)[2]
        upper(s1) == IF h = ClosedInterval \/ h = OpenClosedInterval
                     THEN less_equal(B, s1, x, b) ELSE less(B, s1, x, b)
    IN IF nargs(S) # 2 THEN Exc(s)
       ELSE LET va == is_extended_real(B, a)
                vb == is_extended_real(B, b)
                vx == is_extended_real(B, x)
            IN IF va = Raise THEN Exc(s)
               ELSE IF va # PyTrue THEN Ret(PyNone, s)
               ELSE IF vb = Raise THEN Exc(s)
               ELSE IF vb # PyTrue THEN Ret(PyNone, s)
               ELSE IF vx = Raise THEN Exc(s)
               ELSE IF vx # PyTrue THEN Ret(vx, s)
               ELSE IF h # ClosedInterval /\ a = b THEN Ret(PyFalse, s)
               ELSE NotThenS(IF h = ClosedInterval \/ h = ClosedOpenInterval
                             THEN less_equal(B, s, a, x) ELSE less(B, s, a, x),
                             LAMBDA s1 : upper(s1))

RECURSIVE ElementEach(_, _, _, _, _)
\* [self.element(x, T) for T in Ts[i..]]
ElementEach(B, s, x, Ts, i) ==
    IF i > Len(Ts) THEN Ret(<<>>, s)
    ELSE Bind(element(B, s, x, Ts[i]), LAMBDA r :
         Bind(ElementEach(B, r.s, x, Ts, i + 1), LAMBDA q :
         Ret(<<r.v>> \o q.v, q.s)))

\* Brain.element, lines 983-989: a finite set
element_Set(B, x, S) ==
    LET check == [j \in 1..nargs(S) |-> equal(B, x, args(S)[j])]
    IN IF \E j \in 1..nargs(S) : check[j] = Raise THEN Raise
       ELSE IF \E j \in 1..nargs(S) : check[j] = PyTrue THEN PyTrue
       ELSE IF \A j \in 1..nargs(S) : check[j] = PyFalse THEN PyFalse
       ELSE PyNone

\* Brain.element
Brain_element(B, s, x, S) ==
    LET d == element_domain(B, x, S)
        h == head(S)
    IN IF d # Cont THEN Lift(d, s)
       ELSE IF h = ZZGreaterEqual THEN
            (IF nargs(S) # 1 THEN Exc(s)
             ELSE NotThenS(Lift(is_integer(B, x), s), LAMBDA s1 : less_equal(B, s1, args(S)[1], x)))
       ELSE IF h = ZZLessEqual THEN
            (IF nargs(S) # 1 THEN Exc(s)
             ELSE NotThenS(Lift(is_integer(B, x), s), LAMBDA s1 : less_equal(B, s1, x, args(S)[1])))
       ELSE IF h = Range THEN
            (IF nargs(S) # 2 THEN Exc(s)
             ELSE NotThenS(Lift(is_integer(B, x), s), LAMBDA s1 :
                  NotThenS(less_equal(B, s1, args(S)[1], x), LAMBDA s2 :
                  less_equal(B, s2, x, args(S)[2]))))
       ELSE IF h \in {ClosedInterval, OpenInterval, ClosedOpenInterval, OpenClosedInterval} THEN
            element_interval(B, s, x, S)
       ELSE IF h = Set THEN Lift(element_Set(B, x, S), s)
       ELSE IF h = Union THEN
            (IF nargs(S) = 0 THEN Ret(PyFalse, s)
             ELSE Bind(ElementEach(B, s, x, args(S), 1), LAMBDA c :
                  Ret(IF InSeq(c.v, PyTrue) THEN PyTrue
                      ELSE IF \A j \in 1..Len(c.v) : c.v[j] = PyFalse THEN PyFalse
                      ELSE PyNone, c.s)))
       ELSE IF h = Intersection THEN
            (IF nargs(S) < 1 THEN Exc(s)
             ELSE Bind(ElementEach(B, s, x, args(S), 1), LAMBDA c :
                  Ret(IF \A j \in 1..Len(c.v) : c.v[j] = PyTrue THEN PyTrue
                      ELSE IF InSeq(c.v, PyFalse) THEN PyFalse
                      ELSE PyNone, c.s)))
       ELSE IF h = SetMinus THEN
            (IF nargs(S) # 2 THEN Exc(s)
             ELSE Bind(element(B, s, x, args(S)[1]), LAMBDA v1 :
                  IF v1.v = PyFalse THEN Ret(PyFalse, v1.s)
                  ELSE Bind(element(B, v1.s, x, args(S)[2]), LAMBDA v2 :
                       Ret(IF v1.v = PyTrue /\ v2.v = PyFalse THEN PyTrue
                           ELSE IF v1.v = PyTrue /\ v2.v = PyTrue THEN PyFalse
                           ELSE PyNone, v2.s))))
       ELSE Ret(PyNone, s)


----------------------------------------------------------------------------
(* Construction of a session: hypotheses and their consequences *)

RECURSIVE head_args_flattened(_, _)
RECURSIVE flatten_each(_, _, _)
flatten_each(ts, h, i) ==
    IF i > Len(ts) THEN <<>> ELSE head_args_flattened(ts[i], h) \o flatten_each(ts, h, i + 1)
\* Expr.head_args_flattened
head_args_flattened(t, h) == IF head(t) = h THEN flatten_each(args(t), h, 1) ELSE <<t>>

EmptySt == [cache |-> EmptyMap, calls |-> {}, stack |-> <<>>]
\* Brain(): a session without hypotheses
EmptyBrain ==
    [assumptions |-> {}, inferences |-> {}, fungrim |-> FALSE, expr_db |-> EmptyMap, match_db |-> EmptyMap,
     entries |-> EmptyMap, penalty |-> EmptyMap]

\* Expr.simple(): simplification by a fresh session; RaiseV for an exception
Expr_simple(t) ==
    LET r == Simple(EmptyBrain, EmptySt, t)
    IN IF r.x THEN RaiseV ELSE r.v

RECURSIVE infer_not_domain(_, _)
\* infer_not_domain: the facts it adds
infer_not_domain(x, dom) ==
    IF head(dom) = Union THEN
        UNION {infer_not_domain(x, d) : d \in SeqRange(head_args_flattened(dom, Union))}
    ELSE LET add(D) == {Ap2(NotElement, x, d) : d \in D}
         IN add({dom})
            \cup (IF head(dom) = Set /\ nargs(dom) = 1 THEN {Ap2(NotEqual, x, args(dom)[1])} ELSE {})
            \cup (IF dom = CC THEN add({RR, QQ, ZZ, PP, HH, AlgebraicNumbers})
                  ELSE IF dom = RR THEN add({QQ, ZZ, PP})
                  ELSE IF dom = QQ THEN add({ZZ, PP})
                  ELSE IF dom = ZZ THEN add({PP})
                  ELSE IF dom = AlgebraicNumbers THEN add({QQ, ZZ})
                  ELSE {})

\* an exception during construction is recorded as the marker RaiseV among the facts
IfTrue(t, facts) ==
    LET v == Expr_simple(t)
    IN IF v = RaiseV THEN {RaiseV} ELSE IF v = True_ THEN facts ELSE {}

\* infer_domain, lines 188-251: the interval branches; lo, hi tell which ends are closed
infer_interval(x, dom) ==
    LET h == head(dom)
        a == args(dom)[1]
        b == args(dom)[2]
        lo == h \in {ClosedInterval, ClosedOpenInterval}
        hi == h \in {ClosedInterval, OpenClosedInterval}
        Below == IF lo THEN LessEqual ELSE Less
        Above == IF lo THEN GreaterEqual ELSE Greater
        UpTo == IF hi THEN LessEqual ELSE Less
        DownTo == IF hi THEN GreaterEqual ELSE Greater
        reals == {Ap2(Element, x, RR), Ap2(Element, x, CC)}
        aReal == Ap2(Element, a, RR)
        bReal == Ap2(Element, b, RR)
    IN IF nargs(dom) # 2 THEN {RaiseV}
       ELSE {Ap2(Below, a, x), Ap2(UpTo, x, b), Ap2(Above, x, a), Ap2(DownTo, b, x)}
            \cup (IF h = OpenInterval THEN reals
                  ELSE IF h = ClosedInterval THEN
                       (IF Expr_simple(aReal) = RaiseV THEN {RaiseV}
                        ELSE IF Expr_simple(aReal) = True_ THEN IfTrue(bReal, reals) ELSE {})
                  ELSE IF h = OpenClosedInterval THEN IfTrue(bReal, reals)
                  ELSE IfTrue(aReal, reals))
            \cup UNION {IfTrue(Ap2(GreaterEqual, a, ExprInt(v)), {Ap2(Above, x, ExprInt(v)), Ap2(Below, ExprInt(v), x)})
                        : v \in {-1, 0, 1}}
            \cup UNION {IfTrue(Ap2(LessEqual, b, ExprInt(v)), {Ap2(UpTo, x, ExprInt(v)), Ap2(DownTo, ExprInt(v), x)})
                        : v \in {-1, 0, 1}}

\* an inference that adds the hypothesis without the domains that contain its domain
infer_domain_only(x, dom) == {Ap2(Element, x, dom)}

RECURSIVE infer_domain(_, _)
\* infer_domain: the facts it adds
infer_domain(x, dom) ==
    IF head(dom) = Intersection THEN
        UNION {infer_domain(x, d) : d \in SeqRange(head_args_flattened(dom, Intersection))}
    ELSE LET add(D) == {Ap2(Element, x, d) : d \in D}
         IN add({dom})
            \cup (IF head(dom) = Set /\ nargs(dom) = 1 THEN {Ap2(Equal, x, args(dom)[1])} ELSE {})
            \cup (IF dom = RR THEN add({CC})
                  ELSE IF dom = QQ THEN add({RR, CC, AlgebraicNumbers})
                  ELSE IF dom = ZZ THEN add({QQ, RR, CC, AlgebraicNumbers})
                  ELSE IF dom = HH THEN add({CC})
                  ELSE IF dom = PP THEN
                       add({Ap1(ZZGreaterEqual, ExprInt(2)), Ap2(ClosedOpenInterval, ExprInt(2), Infinity),
                            ZZ, QQ, RR, CC, AlgebraicNumbers})
                  ELSE IF dom = AlgebraicNumbers THEN add({CC})
                  ELSE IF head(dom) \in {ZZGreaterEqual, ZZLessEqual, Range} THEN
                       add({ZZ, QQ, RR, CC, AlgebraicNumbers})
                  ELSE IF head(dom) \in {OpenInterval, ClosedInterval, OpenClosedInterval, ClosedOpenInterval} THEN
                       infer_interval(x, dom)
                  ELSE {})

\* Brain.infer: the facts it adds
infer(thm) ==
    {thm}
    \cup (IF head(thm) = Element THEN
            (IF nargs(thm) # 2 THEN {RaiseV}
             ELSE LET x == args(thm)[1]
                      dom == args(thm)[2]
                  IN infer_domain(x, dom)
                     \cup (IF head(dom) = SetMinus THEN
                             (IF nargs(dom) # 2 THEN {RaiseV}
                              ELSE infer_domain(x, args(dom)[1]) \cup infer_not_domain(x, args(dom)[2]))
                           ELSE {}))
          ELSE {})

\* Brain.__init__; assumptions is NoneV or a term
Brain_init(assumptions) ==
    LET asms == IF assumptions = NoneV THEN {} ELSE SeqRange(head_args_flattened(assumptions, And))
    IN [EmptyBrain EXCEPT !.assumptions = asms, !.inferences = UNION {infer(asm) : asm \in asms}]

\* the cheapest of the sides of a constant equation, the first one on a tie
Best(B, sides) ==
    sides[CHOOSE j \in 1..Len(sides) :
            /\ \A k \in 1..Len(sides) : complexity(B, sides[j]) <= complexity(B, sides[k])
            /\ \A k \in 1..(j - 1) : complexity(B, sides[k]) > complexity(B, sides[j])]

\* lines 3684-3693: the sides of a constant equation other than the cheapest are rewritten to it
load_best(B, content, best) ==
    [B EXCEPT !.expr_db = [arg \in {arg \in SeqRange(args(content)) : arg # best} |-> best] @@ @]
\* lines 3680-3693: an entry without variables, its facts being known
load_constant(B, content) ==
    IF head(content) = Equal THEN load_best(B, content, Best(B, args(content))) ELSE B

RECURSIVE Fungrim_load(_, _, _)
\* FungrimBrain.__init__, lines 3674-3708: the loop over all_entries
Fungrim_load(B, entries, i) ==
    IF i > Len(entries) THEN B
    ELSE LET entry == entries[i]
             content == entry.formula
         IN IF content = NoneV THEN Fungrim_load(B, entries, i + 1)
            ELSE IF ~entry.has_variables THEN
                Fungrim_load(load_constant([B EXCEPT !.inferences = @ \cup infer(content)], content),
                             entries, i + 1)
            ELSE IF head(content) = Equal /\ nargs(content) = 2 THEN
                LET lhs_head == head(args(content)[1])
                IN Fungrim_load([B EXCEPT !.match_db =
                                    IF lhs_head \in DOMAIN @
                                    THEN [@ EXCEPT ![lhs_head] = Append(@, entry.id)]
                                    ELSE (lhs_head :> <<entry.id>>) @@ @], entries, i + 1)
            ELSE Fungrim_load(B, entries, i + 1)

\* FungrimBrain.__init__; entries is all_entries
FungrimBrain_init(assumptions, entries) ==
    Fungrim_load([Brain_init(assumptions) EXCEPT
                    !.fungrim = TRUE,
                    !.entries = [id \in {entries[j].id : j \in 1..Len(entries)} |->
                                    (CHOOSE e \in SeqRange(entries) : e.id = id)]],
                 entries, 1)

----------------------------------------------------------------------------
(* Brain: the rules of Add and Mul *)

\* the characters (code points) of the names of the symbols that occur in sorted terms
NameChars(n) ==
    CASE n = "x" -> <<120>>
      [] n = "y" -> <<121>>
      [] n = "a" -> <<97>>
      [] n = "Pi" -> <<80, 105>>
      [] n = "ConstI" -> <<67, 111, 110, 115, 116, 73>>
      [] n = "Add" -> <<65, 100, 100>>
      [] n = "Sub" -> <<83, 117, 98>>
      [] n = "Neg" -> <<78, 101, 103>>
      [] n = "Mul" -> <<77, 117, 108>>
      [] n = "Pow" -> <<80, 111, 119>>
      [] n = "Sqrt" -> <<83, 113, 114, 116>>
      [] OTHER -> <<63>>

RECURSIVE DigitChars(_)
\* str(n) for an int n >= 0
DigitChars(n) == IF n < 10 THEN <<48 + n>> ELSE DigitChars(n \div 10) \o <<48 + (n % 10)>>

RECURSIVE str(_)
RECURSIVE JoinStr(_, _)
\* ", ".join(argstrs)
JoinStr(ts, i) ==
    IF i > Len(ts) THEN <<>>
    ELSE (IF i > 1 THEN <<44, 32>> ELSE <<>>) \o str(ts[i]) \o JoinStr(ts, i + 1)

\* Expr.str: the characters of str(x)
str(t) ==
    IF is_symbol(t) THEN NameChars(t.s)
    ELSE IF is_integer_atom(t) THEN (IF t.i < 0 THEN <<45>> \o DigitChars(-t.i) ELSE DigitChars(t.i))
    ELSE str(head(t)) \o <<40>> \o JoinStr(args(t), 1) \o <<41>>

RECURSIVE StrLess(_, _)
\* u < v for Python strings
StrLess(u, v) ==
    IF v = <<>> THEN FALSE
    ELSE IF u = <<>> THEN TRUE
    ELSE IF u[1] # v[1] THEN u[1] < v[1]
    ELSE StrLess(Tail(u), Tail(v))

\* key=lambda x: (not self.is_real(x), self.complexity(x), str(x))
sort_key(B, x) == <<IF is_real(B, x) = PyTrue THEN 0 ELSE 1, complexity(B, x), str(x)>>
\* k < l for the key tuples
KeyLess(k, l) ==
    \/ k[1] < l[1]
    \/ k[1] = l[1] /\ k[2] < l[2]
    \/ k[1] = l[1] /\ k[2] = l[2] /\ StrLess(k[3], l[3])

\* the place of t in the sorted list q: behind the elements that are not greater (the sort is stable)
InsertAt(B, q, t) ==
    IF \E j \in 1..Len(q) : KeyLess(sort_key(B, t), sort_key(B, q[j]))
    THEN CHOOSE j \in 1..Len(q) :
            /\ KeyLess(sort_key(B, t), sort_key(B, q[j]))
            /\ \A i \in 1..(j - 1) : ~KeyLess(sort_key(B, t), sort_key(B, q[i]))
    ELSE Len(q) + 1
Inserted(q, t, j) == SubSeq(q, 1, j - 1) \o <<t>> \o SubSeq(q, j, Len(q))

RECURSIVE sorted(_, _, _)
\* sorted(ts[1..n], key=...)
sorted(B, ts, n) ==
    IF n = 0 THEN <<>> ELSE Inserted(sorted(B, ts, n - 1), ts[n], InsertAt(B, sorted(B, ts, n - 1), ts[n]))

\* the sort, or the exception of is_real in the key
SortTerms(B, s, ts) ==
    IF \E j \in 1..Len(ts) : is_real(B, ts[j]) = Raise THEN Exc(s) ELSE Ret(sorted(B, ts, Len(ts)), s)

\* a pair outside the modelled fragment of the iterators
NoPair == <<UnmodelledV, 0>>
Modelled(pairs) == \A j \in 1..Len(pairs) : pairs[j] # NoPair

RECURSIVE iter_term_coeff(_, _, _)
\* simple_Add.iter_term_coeff on terms[i..], the coefficients multiplied by sg; products and
\* quotients among the terms are outside the modelled fragment
iter_term_coeff(ts, i, sg) ==
    IF i > Len(ts) THEN <<>>
    ELSE LET x == ts[i]
         IN (IF is_integer_atom(x) THEN <<<<One, sg * x.i>>>>
             ELSE IF head(x) = Add THEN iter_term_coeff(args(x), 1, sg)
             ELSE IF head(x) = Sub THEN
                 (IF nargs(x) # 2 THEN <<NoPair>>
                  ELSE iter_term_coeff(<<args(x)[1]>>, 1, sg) \o iter_term_coeff(<<args(x)[2]>>, 1, -sg))
             ELSE IF head(x) = Neg THEN
                 (IF nargs(x) # 1 THEN <<NoPair>> ELSE iter_term_coeff(args(x), 1, -sg))
             ELSE IF head(x) = Mul THEN (IF nargs(x) >= 2 THEN <<NoPair>> ELSE <<<<x, sg>>>>)
             ELSE IF head(x) = Div THEN <<NoPair>>
             ELSE <<<<x, sg>>>>)
            \o iter_term_coeff(ts, i + 1, sg)

\* d[t] += c if t in d else d[t] = c, for a dict d kept as the list of its items in insertion order
Accumulate(d, t, c) ==
    IF \E j \in 1..Len(d) : d[j][1] = t
    THEN [j \in 1..Len(d) |-> IF d[j][1] = t THEN <<t, d[j][2] + c>> ELSE d[j]]
    ELSE Append(d, <<t, c>>)

RECURSIVE term_coeff(_, _)
\* the dict after the loop over pairs[1..n]
term_coeff(pairs, n) ==
    IF n = 0 THEN <<>> ELSE Accumulate(term_coeff(pairs, n - 1), pairs[n][1], pairs[n][2])

RECURSIVE AddTerms(_, _, _, _)
\* simple_Add, lines 1861-1882: the terms rebuilt from the items d[i..] of term_coeff
AddTerms(B, s, d, i) ==
    IF i > Len(d) THEN Ret(<<>>, s)
    ELSE LET t == d[i][1]
             c == d[i][2]
         IN Bind(IF c = 0 THEN Ret(<<>>, s)
                 ELSE IF c = 1 THEN Ret(<<t>>, s)
                 ELSE IF c = -1 THEN Ret(<<IF t = One THEN ExprInt(-1) ELSE Ap1(Neg, t)>>, s)
                 ELSE Bind(simple_Mul(B, s, <<t, ExprInt(c)>>), LAMBDA r : Ret(<<r.v>>, r.s)),
                 LAMBDA r : Bind(AddTerms(B, r.s, d, i + 1), LAMBDA q : Ret(r.v \o q.v, q.s)))

\* simple_Add, lines 1884-1893: the result for the sorted terms
AddResult(terms) ==
    IF Len(terms) = 0 THEN Zero
    ELSE IF Len(terms) = 1 THEN terms[1]
    ELSE IF Len(terms) = 2 /\ head(terms[2]) = Neg THEN
        (IF nargs(terms[2]) # 1 THEN RaiseV ELSE Ap2(Sub, terms[1], args(terms[2])[1]))
    ELSE Apply(Add, terms)

\* not all(self.is_complex(x) for x in terms)
NotAllComplex(B, terms) == PyNot(PyAll([j \in 1..Len(terms) |-> is_complex(B, terms[j])]))

\* simple_Add, lines 1804-1893, on the simplified terms, all of them complex numbers
AddCollected(B, s, terms) ==
    IF ~Modelled(iter_term_coeff(terms, 1, 1)) THEN Ret(UnmodelledV, s)
    ELSE Bind(AddTerms(B, s, term_coeff(iter_term_coeff(terms, 1, 1), Len(iter_term_coeff(terms, 1, 1))), 1),
              LAMBDA r :
         Bind(SortTerms(B, r.s, r.v), LAMBDA q :
         IF AddResult(q.v) = RaiseV THEN Exc(q.s) ELSE Ret(AddResult(q.v), q.s)))

\* Brain.simple_Add
Brain_simple_Add(B, s, terms) ==
    IF Len(terms) = 0 THEN Ret(Zero, s)
    ELSE IF Len(terms) = 1 THEN Simple(B, s, terms[1])
    ELSE Bind(SimpleArgs(B, s, terms, 1), LAMBDA r :
         IF NotAllComplex(B, r.v) = Raise THEN Exc(r.s)
         ELSE IF NotAllComplex(B, r.v) = PyTrue THEN Ret(Apply(Add, r.v), r.s)
         ELSE AddCollected(B, r.s, r.v))

RECURSIVE iter_base_exp(_, _)
\* simple_Mul.iter_base_exp on factors[i..]; quotients, powers, roots and exponentials among the
\* factors are outside the modelled fragment
iter_base_exp(fs, i) ==
    IF i > Len(fs) THEN <<>>
    ELSE LET x == fs[i]
         IN (IF head(x) = Mul THEN iter_base_exp(args(x), 1)
             ELSE IF head(x) \in {Div, Exp, Pow, Sqrt} THEN <<NoPair>>
             ELSE IF head(x) = Neg THEN
                 (IF nargs(x) # 1 THEN <<NoPair>> ELSE <<<<ExprInt(-1), One>>>> \o iter_base_exp(args(x), 1))
             ELSE <<<<x, One>>>>)
            \o iter_base_exp(fs, i + 1)

\* lines 1969-1981: the pair (b, e) goes into the prefactor
InPrefactor(p) ==
    is_integer_atom(p[1]) /\ is_integer_atom(p[2]) /\ ((-2 <= p[2].i /\ p[2].i <= 2) \/ p[1].i = -1)

RECURSIVE IntPow(_, _)
IntPow(b, e) == IF e = 0 THEN 1 ELSE b * IntPow(b, e - 1)

RECURSIVE prefactor(_, _)
\* the prefactor after the loop over pairs[1..n]; it stays an integer while no exponent is negative
prefactor(pairs, n) ==
    IF n = 0 THEN 1
    ELSE IF ~InPrefactor(pairs[n]) THEN prefactor(pairs, n - 1)
    ELSE IF pairs[n][1].i = -1 THEN
        (IF pairs[n][2].i % 2 # 0 THEN -prefactor(pairs, n - 1) ELSE prefactor(pairs, n - 1))
    ELSE prefactor(pairs, n - 1) * IntPow(pairs[n][1].i, pairs[n][2].i)

\* a negative exponent makes the prefactor a fraction, outside the modelled fragment
PrefactorModelled(pairs) ==
    \A j \in 1..Len(pairs) : (InPrefactor(pairs[j]) /\ pairs[j][1].i # -1) => pairs[j][2].i >= 0

\* base_exp[b] += e if b in base_exp else base_exp[b] = e, on the items in insertion order
AccumulateExp(d, b, e) ==
    IF \E j \in 1..Len(d) : d[j][1] = b
    THEN [j \in 1..Len(d) |-> IF d[j][1] = b THEN <<b, Ap2(Add, d[j][2], e)>> ELSE d[j]]
    ELSE Append(d, <<b, e>>)

RECURSIVE base_exp(_, _)
\* the dict after the loop over pairs[1..n]
base_exp(pairs, n) ==
    IF n = 0 THEN <<>>
    ELSE IF InPrefactor(pairs[n]) THEN base_exp(pairs, n - 1)
    ELSE AccumulateExp(base_exp(pairs, n - 1), pairs[n][1], pairs[n][2])

\* lines 1990-2017: the factor for base b with simplified exponent e; a factor of the denominator
\* is outside the modelled fragment
MulFactor(b, e) ==
    IF b = ConstE THEN (IF e = Zero THEN <<>> ELSE IF e = One THEN <<b>> ELSE <<Ap1(Exp, e)>>)
    ELSE IF is_integer_atom(e) THEN
        (IF e.i = 0 THEN <<>>
         ELSE IF e.i = 1 THEN <<b>>
         ELSE IF e.i >= 2 THEN <<Ap2(Pow, b, e)>>
         ELSE <<UnmodelledV>>)
    ELSE IF head(e) = Neg THEN <<UnmodelledV>>
    ELSE IF e = Ap2(Div, One, ExprInt(2)) THEN <<Ap1(Sqrt, b)>>
    ELSE <<Ap2(Pow, b, e)>>

RECURSIVE MulFactors(_, _, _, _)
\* lines 1986-2017: the factors rebuilt from the items d[i..] of base_exp
MulFactors(B, s, d, i) ==
    IF i > Len(d) THEN Ret(<<>>, s)
    ELSE Bind(Simple(B, s, d[i][2]), LAMBDA r :
         Bind(MulFactors(B, r.s, d, i + 1), LAMBDA q :
         Ret(MulFactor(d[i][1], r.v) \o q.v, q.s)))

\* lines 2018-2043: the product of the prefactor p and the sorted factors
MulResult(p, factors) ==
    IF p # 1 THEN (IF factors = <<>> THEN ExprInt(p) ELSE Apply(Mul, <<ExprInt(p)>> \o factors))
    ELSE IF Len(factors) = 0 THEN One
    ELSE IF Len(factors) = 1 THEN factors[1]
    ELSE Apply(Mul, factors)

\* simple_Mul, lines 1931-2043, on the simplified factors, all of them complex numbers
MulCollected(B, s, fs, pairs) ==
    IF \E j \in 1..Len(fs) : fs[j] = Zero THEN Ret(Zero, s)
    ELSE IF ~Modelled(pairs) \/ ~PrefactorModelled(pairs) THEN Ret(UnmodelledV, s)
    ELSE Bind(MulFactors(B, s, base_exp(pairs, Len(pairs)), 1), LAMBDA r :
         IF InSeq(r.v, UnmodelledV) THEN Ret(UnmodelledV, r.s)
         ELSE Bind(SortTerms(B, r.s, r.v), LAMBDA q :
              Ret(MulResult(prefactor(pairs, Len(pairs)), q.v), q.s)))

\* Brain.simple_Mul
Brain_simple_Mul(B, s, factors) ==
    IF Len(factors) = 0 THEN Ret(One, s)
    ELSE IF Len(factors) = 1 THEN Simple(B, s, factors[1])
    ELSE Bind(SimpleArgs(B, s, factors, 1), LAMBDA r :
         IF NotAllComplex(B, r.v) = Raise THEN Exc(r.s)
         ELSE IF NotAllComplex(B, r.v) = PyTrue THEN Ret(Apply(Mul, r.v), r.s)
         ELSE MulCollected(B, r.s, r.v, iter_base_exp(r.v, 1)))

\* Brain.simple_Sub
simple_Sub(B, s, ts) ==
    IF Len(ts) # 2 THEN Exc(s)
    ELSE IF PyAnd(is_complex(B, ts[1]), is_complex(B, ts[2])) = Raise THEN Exc(s)
    ELSE IF PyAnd(is_complex(B, ts[1]), is_complex(B, ts[2])) = PyTrue
         THEN simple_Add(B, s, <<ts[1], Ap1(Neg, ts[2])>>)
    ELSE Bind(Simple(B, s, ts[1]), LAMBDA r : Bind(Simple(B, r.s, ts[2]), LAMBDA q :
         Ret(Ap2(Sub, r.v, q.v), q.s)))

----------------------------------------------------------------------------
(* Brain: the rule of Where *)

\* dict(zip(ks, vs)): of two entries with the same key the later one stays
ZipMap(ks, vs) ==
    [k \in {ks[i] : i \in 1..Len(ks)} |->
        vs[CHOOSE i \in 1..Len(ks) :
              ks[i] = k /\ \A j \in (i + 1)..Len(ks) : ks[j] # k]]

RECURSIVE replace_func(_, _, _, _)
\* simple_Where.replace_func; an atom has no head (None), and so has the
\* variable of a definition that is an atom: len(None) raises
replace_func(expr, func, func_args, func_value) ==
    IF head(expr) = func
    THEN (IF func = NoneV \/ nargs(expr) # Len(func_args) THEN RaiseV
          ELSE replace(func_value, ZipMap(func_args, args(expr))))
    ELSE IF is_atom(expr) THEN expr
    ELSE Built(replace_func(head(expr), func, func_args, func_value),
               [i \in 1..nargs(expr) |->
                  replace_func(args(expr)[i], func, func_args, func_value)])

\* defs with f applied to the definitions after the i-th
LaterDefs(defs, i, f(_)) == [j \in 1..Len(defs) |-> IF j > i THEN f(defs[j]) ELSE defs[j]]

destructuring == {Tuple, List, Matrix2x2}

RECURSIVE WhereDefs(_, _, _, _, _)

\* the body of the loop for the definition var := value, value simplified
WhereDef(B, s, expr, defs, i, var, value) ==
    IF is_symbol(var)
    THEN WhereDefs(B, s, replace(expr, var :> value),
                   LaterDefs(defs, i, LAMBDA d : replace(d, var :> value)), i + 1)
    ELSE IF head(var) \in destructuring
    THEN (IF head(value) \notin destructuring THEN WhereDefs(B, s, expr, defs, i + 1)
          ELSE IF nargs(var) = nargs(value) /\ \A x \in Elems(args(var)) : is_symbol(x)
          THEN WhereDefs(B, s, replace(expr, ZipMap(args(var), args(value))),
                         LaterDefs(defs, i, LAMBDA d :
                                     replace(d, ZipMap(args(var), args(value)))),
                         i + 1)
          ELSE Fall(s))
    ELSE IF RaiseV \in Elems(LaterDefs(defs, i, LAMBDA d :
                                         replace_func(d, head(var), args(var), value)))
                          \cup {replace_func(expr, head(var), args(var), value)}
    THEN Exc(s)
    ELSE WhereDefs(B, s, replace_func(expr, head(var), args(var), value),
                   LaterDefs(defs, i, LAMBDA d :
                               replace_func(d, head(var), args(var), value)),
                   i + 1)

\* for i in range(len(defs)), then simple(expr); falls through on
\* NotImplementedError
WhereDefs(B, s, expr, defs, i) ==
    IF i > Len(defs) THEN Simple(B, s, expr)
    ELSE IF head(defs[i]) \notin {Def, Equal} \/ nargs(defs[i]) # 2 THEN Exc(s)
    ELSE Bind(Simple(B, s, args(defs[i])[2]), LAMBDA r :
         WhereDef(B, r.s, expr, defs, i, args(defs[i])[1], r.v))

\* except NotImplementedError: pass; return Where(*args)
WhereResult(ts, r) == IF r.c THEN Ret(Apply(Where, ts), r.s) ELSE r

\* Brain.simple_Where
Brain_simple_Where(B, s, ts) ==
    IF Len(ts) = 0 THEN Exc(s)
    ELSE WhereResult(ts, WhereDefs(B, s, ts[1], Tail(ts), 1))

----------------------------------------------------------------------------
(* Brain: the rules of Pow and Sqrt *)

\* the rule of Pow for x and y simplified; c is is_complex(x) and is_complex(y)
PowOf(B, s, x, y, c) ==
    IF c = Raise THEN Exc(s)
    ELSE IF c = PyTrue /\ is_integer_atom(x) /\ is_integer_atom(y) /\ 0 <= y.i /\ y.i <= 2
    THEN Ret(ExprInt(IntPow(x.i, y.i)), s)
    ELSE IF c = PyTrue /\ y = Zero THEN Ret(One, s)
    ELSE IF c = PyTrue /\ y = One THEN Ret(x, s)
    ELSE IF c = PyTrue /\ x = One THEN Ret(One, s)
    ELSE IF c = PyTrue /\ x = Zero /\ is_positive(B, y) = Raise THEN Exc(s)
    ELSE IF c = PyTrue /\ x = Zero /\ is_positive(B, y) = PyTrue THEN Ret(Zero, s)
    ELSE IF c = PyTrue /\ x = Zero /\ is_negative(B, y) = Raise THEN Exc(s)
    ELSE IF c = PyTrue /\ x = Zero /\ is_negative(B, y) = PyTrue THEN Ret(UnsignedInfinity, s)
    ELSE IF x = ConstE THEN Ret(Ap1(Exp, y), s)
    ELSE Ret(Ap2(Pow, x, y), s)

\* Brain.simple_Pow
Brain_simple_Pow(B, s, ts) ==
    IF Len(ts) # 2 THEN Exc(s)
    ELSE Bind(Simple(B, s, ts[1]), LAMBDA r : Bind(Simple(B, r.s, ts[2]), LAMBDA q :
         PowOf(B, q.s, r.v, q.v, PyAnd(is_complex(B, r.v), is_complex(B, q.v)))))

\* Python floats, with a mantissa of MantissaBits bits: m * 2^e
RECURSIVE TwoTo(_)
TwoTo(n) == IF n = 0 THEN 1 ELSE 2 * TwoTo(n - 1)
Float(m, e) == [m |-> m, e |-> e]

\* q or q + 1: q * 2^n + rem rounded to a multiple of 2^n, ties to even
RoundShift(q, rem, n) ==
    IF 2 * rem > TwoTo(n) \/ (2 * rem = TwoTo(n) /\ q % 2 = 1) THEN q + 1 ELSE q

\* float(v) for an integer v >= 0
float_of(v) ==
    IF bit_length(v) <= MantissaBits THEN Float(v, 0)
    ELSE Float(RoundShift(v \div TwoTo(bit_length(v) - MantissaBits),
                          v % TwoTo(bit_length(v) - MantissaBits),
                          bit_length(v) - MantissaBits),
               bit_length(v) - MantissaBits)

\* the integer part of the square root
isqrt(n) == CHOOSE q \in 0..TwoTo(MantissaBits + 1) : q * q <= n /\ (q + 1) * (q + 1) > n

\* the exponent E for which m * 2^E has one bit more than twice the mantissa,
\* or two, and e - E is even
RootShift(f) ==
    IF (f.e - (2 * MantissaBits + 1 - bit_length(f.m))) % 2 = 0
    THEN 2 * MantissaBits + 1 - bit_length(f.m)
    ELSE 2 * MantissaBits + 2 - bit_length(f.m)

\* f ** 0.5 for f > 0, correctly rounded: the root of m * 2^E has one bit
\* more than the mantissa, and is never half way between two floats
float_sqrt(f) ==
    Float((isqrt(f.m * TwoTo(RootShift(f))) + 1) \div 2,
          (f.e - RootShift(f)) \div 2 + 1)

\* int(round(f)): the nearest integer, ties to even
round_float(f) ==
    IF f.e >= 0 THEN f.m * TwoTo(f.e)
    ELSE RoundShift(f.m \div TwoTo(-f.e), f.m % TwoTo(-f.e), -f.e)

\* int(round(v ** 0.5))
rounded_root(v) == round_float(float_sqrt(float_of(v)))

\* the rule of Sqrt for x simplified
SqrtOf(B, s, x) ==
    IF x \in {Zero, One, Infinity, UnsignedInfinity, Undefined} THEN Ret(x, s)
    ELSE IF x = ExprInt(-1) THEN Ret(ConstI, s)
    ELSE IF x = NegInfinity THEN Ret(Ap2(Mul, ConstI, Infinity), s)
    ELSE IF is_integer_atom(x)
            /\ rounded_root(Magnitude(x.i)) * rounded_root(Magnitude(x.i)) = Magnitude(x.i)
    THEN Ret(IF x.i >= 0 THEN ExprInt(rounded_root(Magnitude(x.i)))
             ELSE Ap2(Mul, ExprInt(rounded_root(Magnitude(x.i))), ConstI), s)
    ELSE IF is_negative(B, x) = Raise THEN Exc(s)
    ELSE IF is_negative(B, x) = PyTrue
    THEN Bind(simple_Sqrt(B, s, <<Ap1(Neg, x)>>), LAMBDA q :
         Ret(Ap2(Mul, q.v, ConstI), q.s))
    ELSE IF head(x) = Pow /\ nargs(x) # 2 THEN Exc(s)
    ELSE IF head(x) = Pow /\ is_integer_atom(args(x)[2])
            /\ args(x)[2].i % 2 = 0 /\ args(x)[2].i > 0
    THEN (IF PyAnd(is_real(B, args(x)[1]), is_nonnegative(B, args(x)[1])) = Raise
          THEN Exc(s)
          ELSE IF PyAnd(is_real(B, args(x)[1]), is_nonnegative(B, args(x)[1])) = PyTrue
          THEN Ret(IF args(x)[2].i = 2 THEN args(x)[1]
                   ELSE Ap2(Pow, args(x)[1], ExprInt(args(x)[2].i \div 2)), s)
          ELSE Ret(Ap1(Sqrt, x), s))
    ELSE Ret(Ap1(Sqrt, x), s)

\* Brain.simple_Sqrt
Brain_simple_Sqrt(B, s, ts) ==
    IF Len(ts) # 1 THEN Exc(s)
    ELSE Bind(Simple(B, s, ts[1]), LAMBDA r : SqrtOf(B, r.s, r.v))

----------------------------------------------------------------------------
(* Method calls on the session *)

\* getattr(self, m)(*ts): the method m of the class of the session B; the session state s is
\* passed to the methods that change it
Method(B, m, s, ts) ==
    CASE m = "simple" -> IF B.fungrim THEN FungrimBrain_simple(B, s, ts[1]) ELSE Brain_simple(B, s, ts[1])
      [] m = "element" -> Brain_element(B, s, ts[1], ts[2])
      [] m = "equal" -> Brain_equal(B, ts[1], ts[2])
      [] m = "equal_before" -> Brain_equal_before(B, ts[1], ts[2])
      [] m = "equal_exact" -> Brain_equal_exact(ts[1], ts[2])
      [] m = "equal_after" -> Brain_equal_after(B, ts[1], ts[2])
      [] m = "greater" -> Brain_greater(B, s, ts[1], ts[2])
      [] m = "less" -> Brain_less(B, s, ts[1], ts[2])
      [] m = "greater_equal" -> Brain_greater_equal(B, s, ts[1], ts[2])
      [] m = "less_equal" -> Brain_less_equal(B, s, ts[1], ts[2])
      [] m = "simple_Add" -> Brain_simple_Add(B, s, ts)
      [] m = "simple_Mul" -> Brain_simple_Mul(B, s, ts)
      [] m = "simple_Where" -> Brain_simple_Where(B, s, ts)
      [] m = "simple_Pow" -> Brain_simple_Pow(B, s, ts)
      [] m = "simple_Sqrt" -> Brain_simple_Sqrt(B, s, ts)
      [] m = "Brain" -> Brain_init(ts[1])
      [] m = "FungrimBrain" -> FungrimBrain_init(ts[1], ts[2])
      [] m = "real_enclosure" -> Brain_real_enclosure(ts[1])
      [] m = "complex_enclosure" -> Brain_complex_enclosure(ts[1])
      [] m = "is_zero" -> Brain_is_zero(B, ts[1])
      [] m = "is_not_zero" -> Brain_is_not_zero(B, ts[1])
      [] m = "is_infinity" -> Brain_is_infinity(B, ts[1])
      [] m = "is_nonnegative" -> Brain_is_nonnegative(B, ts[1])
      [] m = "is_positive" -> Brain_is_positive(B, ts[1])
      [] m = "is_negative" -> Brain_is_negative(B, ts[1])
      [] m = "is_nonpositive" -> Brain_is_nonpositive(B, ts[1])
      [] m = "is_integer" -> Brain_is_integer(B, ts[1])
      [] m = "is_rational" -> Brain_is_rational(B, ts[1])
      [] m = "is_real" -> Brain_is_real(B, ts[1])
      [] m = "is_complex" -> Brain_is_complex(B, ts[1])
      [] m = "is_extended_real" -> Brain_is_extended_real(B, ts[1])
      [] m = "is_algebraic" -> Brain_is_algebraic(B, ts[1])

\* Brain(assumptions=...)
Brain(assumptions) == Method(NoneV, "Brain", <<>>, <<assumptions>>)
\* FungrimBrain(assumptions=...), with the entries of the knowledge base
FungrimBrain(assumptions, entries) == Method(NoneV, "FungrimBrain", <<>>, <<assumptions, entries>>)
\* self.real_enclosure(x)
real_enclosure(x) == Method(NoneV, "real_enclosure", <<>>, <<x>>)
\* self.complex_enclosure(x)
complex_enclosure(x) == Method(NoneV, "complex_enclosure", <<>>, <<x>>)
\* self.simple(expr)
Simple(B, s, expr) == Method(B, "simple", s, <<expr>>)
\* self.element(x, S)
element(B, s, x, S) == Method(B, "element", s, <<x, S>>)
\* self.equal(a, b) and its three parts
equal(B, a, b) == Method(B, "equal", <<>>, <<a, b>>)
equal_before(B, a, b) == Method(B, "equal_before", <<>>, <<a, b>>)
equal_exact(a, b) == Method(NoneV, "equal_exact", <<>>, <<a, b>>)
equal_after(B, a, b) == Method(B, "equal_after", <<>>, <<a, b>>)
\* self.greater(a, b), self.less(a, b), self.greater_equal(a, b), self.less_equal(a, b)
greater(B, s, a, b) == Method(B, "greater", s, <<a, b>>)
less(B, s, a, b) == Method(B, "less", s, <<a, b>>)
greater_equal(B, s, a, b) == Method(B, "greater_equal", s, <<a, b>>)
less_equal(B, s, a, b) == Method(B, "less_equal", s, <<a, b>>)
\* self.simple_Add(*terms), self.simple_Mul(*factors)
simple_Add(B, s, terms) == Method(B, "simple_Add", s, terms)
simple_Mul(B, s, factors) == Method(B, "simple_Mul", s, factors)
\* self.simple_Where(*args), self.simple_Pow(x, y), self.simple_Sqrt(x)
simple_Where(B, s, ts) == Method(B, "simple_Where", s, ts)
simple_Pow(B, s, ts) == Method(B, "simple_Pow", s, ts)
simple_Sqrt(B, s, ts) == Method(B, "simple_Sqrt", s, ts)
\* self.is_zero(x)
is_zero(B, x) == Method(B, "is_zero", <<>>, <<x>>)
\* self.is_not_zero(x)
is_not_zero(B, x) == Method(B, "is_not_zero", <<>>, <<x>>)
\* self.is_infinity(x)
is_infinity(B, x) == Method(B, "is_infinity", <<>>, <<x>>)
\* self.is_nonnegative(x)
is_nonnegative(B, x) == Method(B, "is_nonnegative", <<>>, <<x>>)
\* self.is_positive(x)
is_positive(B, x) == Method(B, "is_positive", <<>>, <<x>>)
\* self.is_negative(x)
is_negative(B, x) == Method(B, "is_negative", <<>>, <<x>>)
\* self.is_nonpositive(x)
is_nonpositive(B, x) == Method(B, "is_nonpositive", <<>>, <<x>>)
\* self.is_integer(x)
is_integer(B, x) == Method(B, "is_integer", <<>>, <<x>>)
\* self.is_rational(x)
is_rational(B, x) == Method(B, "is_rational", <<>>, <<x>>)
\* self.is_real(x)
is_real(B, x) == Method(B, "is_real", <<>>, <<x>>)
\* self.is_complex(x)
is_complex(B, x) == Method(B, "is_complex", <<>>, <<x>>)
\* self.is_extended_real(x)
is_extended_real(B, x) == Method(B, "is_extended_real", <<>>, <<x>>)
\* self.is_algebraic(x)
is_algebraic(B, x) == Method(B, "is_algebraic", <<>>, <<x>>)

----------------------------------------------------------------------------
(* Sessions, terms and oracles of the runs *)

VarX == Symbol("x")
VarY == Symbol("y")
VarA == Symbol("a")
VarV == Symbol("v")
FunF == Symbol("F")

\* the oracle of a run: how it answers on atoms, on compound terms and on
\* terms without a value (an error, or a non-finite ball)
Oracle(atom, comp, undef) == [atom |-> atom, comp |-> comp, undef |-> undef]
Oracles ==
    {Oracle("tight", "tight", "err"), Oracle("wide", "wide", "err"), Oracle("err", "err", "err"),
     Oracle("wide", "err", "err"), Oracle("tight", "tight", "nonfinite")}

NumberDomains == {PP, ZZ, QQ, RR, AlgebraicNumbers, CC}

\* a knowledge base: Factorial(0) = 1, and F(v) = v whenever -F(v) is an integer
KnowledgeBase ==
    <<[id |-> "e1", has_variables |-> FALSE, variables |-> {}, assumptions |-> True_,
       formula |-> Ap2(Equal, Ap1(Factorial, Zero), One)],
      [id |-> "e2", has_variables |-> TRUE, variables |-> {VarV},
       assumptions |-> Ap2(Element, Ap1(Neg, Ap1(FunF, VarV)), ZZ),
       formula |-> Ap2(Equal, Ap1(FunF, VarV), VarV)]>>

Hypotheses ==
    {NoneV, Ap2(LessEqual, VarX, One), Ap2(Element, VarX, Ap2(ClosedInterval, Zero, One))}
    \cup {Ap2(Element, VarX, D) : D \in NumberDomains}

Sessions ==
    {Brain(h) : h \in Hypotheses}
    \cup {FungrimBrain(Ap2(Element, Ap1(FunF, VarA), ZZ), KnowledgeBase)}

SimpleTerms ==
    {Ap2(Element, VarX, D) : D \in NumberDomains}
    \cup {Ap2(LessEqual, Ap1(Pos, VarX), One), Ap1(Not, Ap2(Element, VarX, ZZ)),
          Ap2(And, Ap2(Element, VarX, QQ), Ap2(Element, VarX, PP)),
          Ap1(FunF, VarA), Ap1(Neg, Ap1(FunF, VarA)), Ap2(Equal, Ap1(Pos, One), One)}

NoCall == [op |-> "none", args |-> <<>>, term |-> NoneV, val |-> PyNone, raised |-> FALSE]
Called(op, ts, r) ==
    [op |-> op, args |-> ts, term |-> IF r.x THEN NoneV ELSE r.v, val |-> PyNone, raised |-> r.x]
Asked(op, ts, r) ==
    [op |-> op, args |-> ts, term |-> NoneV, val |-> IF r.x THEN PyNone ELSE r.v, raised |-> r.x]

\* the mutable part of the session between two calls
Session == [cache |-> simple_cache, calls |-> calls, stack |-> <<>>]

\* the limits of the exact backend are not read in runs that do not step through equal
LimitsUntouched == deg_limit = 0 /\ bits_limit = 0

InitCommon ==
    /\ simple_cache = EmptyMap
    /\ calls = {}
    /\ ncalls = 0
    /\ frames = <<>>

Init ==
    /\ oracle \in {Oracle("tight", "tight", "err"), Oracle("err", "err", "err")}
    /\ brain \in Sessions
    /\ RaiseV \notin brain.inferences
    /\ last = NoCall
    /\ InitCommon
    /\ LimitsUntouched

\* a call returns: the session keeps what the call stored in it
Returns(r, rec) ==
    /\ simple_cache' = r.s.cache
    /\ calls' = r.s.calls
    /\ last' = rec
SimpleReturns(op, ts, r) == Returns(r, Called(op, ts, r))
AskedReturns(op, ts, r) == Returns(r, Asked(op, ts, r))

\* brain.simple(t)
DoSimple(t) ==
    /\ ncalls < MaxCalls
    /\ SimpleReturns("simple", <<t>>, Simple(brain, Session, t))
    /\ ncalls' = ncalls + 1
    /\ UNCHANGED <<brain, oracle, deg_limit, bits_limit, frames>>

\* brain.simple(u) for the result u of the last call brain.simple(t)
DoSimpleAgain ==
    /\ last.op = "simple"
    /\ ~last.raised
    /\ SimpleReturns("simple_again", <<last.args[1], last.term>>, Simple(brain, Session, last.term))
    /\ UNCHANGED <<brain, oracle, ncalls, deg_limit, bits_limit, frames>>

Next ==
    \/ \E t \in SimpleTerms : DoSimple(t)
    \/ DoSimpleAgain

Spec == Init /\ [][Next]_vars

----------------------------------------------------------------------------
(* Runs that ask the predicates *)

PredicateNames ==
    {"is_zero", "is_not_zero", "is_infinity", "is_positive", "is_negative", "is_nonnegative",
     "is_nonpositive", "is_integer", "is_rational", "is_algebraic", "is_real", "is_extended_real",
     "is_complex"}

\* getattr(self, p)(t)
Predicate(B, p, t) == Method(B, p, <<>>, <<t>>)

Three == ExprInt(3)
Four == ExprInt(4)
\* Add(): the sum of no terms
EmptySum == Apply(Add, <<>>)

PredTerms ==
    {Zero, Three, ExprInt(-3), Pi, ConstI, VarX, Infinity, NegInfinity, EmptySum,
     Ap2(Div, One, Zero), Ap1(Neg, Pi), Ap2(Add, Pi, ConstI)}

EqualTerms == {Zero, Three, Pi, ConstI, VarX, Infinity, NegInfinity, Ap1(Neg, Pi), EmptySum}

SetChildren == {ZZ, RR, PP}
SetTerms ==
    {Apply(h, ts) : h \in {Union, Intersection}, ts \in {<<>>} \cup {<<c>> : c \in SetChildren} \cup (SetChildren \X SetChildren)}
    \cup {Ap2(SetMinus, c, d) : c \in SetChildren, d \in SetChildren}
ElementTerms == {Three, Four, Pi, VarX}

\* a call that has been made but has not returned yet
Pending == "Pending"
Query(op, ts) == [op |-> op, args |-> ts, term |-> NoneV, val |-> Pending, raised |-> FALSE]

PredQueries ==
    {Query(p, <<t>>) : p \in PredicateNames, t \in PredTerms}
    \cup {Query("equal", <<t, u>>) : t \in EqualTerms, u \in EqualTerms}
    \cup {Query("element", <<t, S>>) : t \in ElementTerms, S \in SetTerms}

InitPred ==
    /\ oracle \in Oracles
    /\ brain \in {Brain(NoneV), Brain(Ap2(Element, VarX, RR))}
    /\ last \in PredQueries
    /\ InitCommon
    /\ LimitsUntouched

\* brain.<p>(t) for one of the unary predicates
DoPredicate ==
    /\ last.val = Pending
    /\ last.op \in PredicateNames
    /\ last' = Asked(last.op, last.args, Lift(Predicate(brain, last.op, last.args[1]), Session))
    /\ UNCHANGED <<brain, simple_cache, calls, oracle, ncalls, deg_limit, bits_limit, frames>>

\* brain.equal(a, b)
DoEqual ==
    /\ last.val = Pending
    /\ last.op = "equal"
    /\ last' = Asked("equal", last.args, Lift(equal(brain, last.args[1], last.args[2]), Session))
    /\ UNCHANGED <<brain, simple_cache, calls, oracle, ncalls, deg_limit, bits_limit, frames>>

\* brain.element(x, S)
DoElement ==
    /\ last.val = Pending
    /\ last.op = "element"
    /\ AskedReturns("element", last.args, element(brain, Session, last.args[1], last.args[2]))
    /\ UNCHANGED <<brain, oracle, ncalls, deg_limit, bits_limit, frames>>

NextPred == DoPredicate \/ DoEqual \/ DoElement

SpecPred == InitPred /\ [][NextPred]_vars

----------------------------------------------------------------------------
(* Runs that compare extended real numbers, without hypotheses *)

OrderNames == {"less", "less_equal", "greater", "greater_equal"}
IntervalHeads == {ClosedInterval, OpenInterval, ClosedOpenInterval, OpenClosedInterval}

ExtendedReals == {NegInfinity, ExprInt(-3), Zero, Three, Infinity}
OrderTerms == ExtendedReals \cup {ConstI}
EndpointTerms == ExtendedReals \cup {ConstI, VarX}

OrderQueries ==
    {Query(p, <<t, u>>) : p \in OrderNames, t \in OrderTerms, u \in OrderTerms}
    \cup {Query("element", <<t, Ap2(h, u, w)>>) :
            t \in OrderTerms, h \in IntervalHeads, u \in EndpointTerms, w \in EndpointTerms}

InitOrder ==
    /\ oracle \in Oracles
    /\ brain = Brain(NoneV)
    /\ last \in OrderQueries
    /\ InitCommon
    /\ LimitsUntouched

\* getattr(self, p)(a, b)
Order(B, s, p, t, u) == Method(B, p, s, <<t, u>>)

\* brain.less(a, b), brain.less_equal(a, b), brain.greater(a, b) or brain.greater_equal(a, b)
DoOrder ==
    /\ last.val = Pending
    /\ last.op \in OrderNames
    /\ AskedReturns(last.op, last.args, Order(brain, Session, last.op, last.args[1], last.args[2]))
    /\ UNCHANGED <<brain, oracle, ncalls, deg_limit, bits_limit, frames>>

NextOrder == DoOrder \/ DoElement

SpecOrder == InitOrder /\ [][NextOrder]_vars

----------------------------------------------------------------------------
(* Runs that step through equal: the limits of the exact backend *)

\* alg_set_degree_limit(200)
ExactDegree == 200
\* alg_set_bits_limit(100000)
ExactBits == 100000

\* the limits in force when a session starts
EntryLimits == {<<1000, 1000000>>, <<50, 5000>>}

StepTerms == {Zero, ConstI, Pi, Ap1(Sin, Pi), Ap1(Neg, Ap1(Sin, One))}

\* the activation of equal on top of the stack
Top == frames[Len(frames)]
\* a call can be made from outside, or from inside an exact evaluation that simplifies a subterm
CanCall == IF frames = <<>> THEN TRUE ELSE Top.pc = "eval" /\ Top.open

Exit(raised, val, entry) ==
    [op |-> "equal", raised |-> raised, val |-> val, entry |-> entry, after |-> <<deg_limit', bits_limit'>>]

\* an exception leaving a nested call reaches the evaluation that made the call
Unwind(fs) ==
    IF fs = <<>> THEN fs ELSE [fs EXCEPT ![Len(fs)] = [@ EXCEPT !.pc = "finally", !.exit = "raise"]]

InitEqual ==
    /\ oracle \in {Oracle("tight", "tight", "err"), Oracle("wide", "err", "err"), Oracle("err", "err", "err")}
    /\ brain = Brain(NoneV)
    /\ last = NoCall
    /\ \E l \in EntryLimits : deg_limit = l[1] /\ bits_limit = l[2]
    /\ InitCommon

\* the activation of equal that reaches the exact computation, with what the exact computation
\* and the rest of the call give
Frame(exact, after) ==
    [exact |-> exact, after |-> after, entry |-> <<deg_limit, bits_limit>>,
     orig_degree |-> deg_limit, orig_bits |-> bits_limit,
     pc |-> "try", open |-> exact = Unmodelled, exit |-> "none"]

\* equal(a, b) returns or raises before the exact computation (lines 785-808)
EqLeaves(v) ==
    /\ v # Cont
    /\ UNCHANGED <<deg_limit, bits_limit>>
    /\ frames' = IF v = Raise THEN Unwind(frames) ELSE frames
    /\ last' = Exit(v = Raise, v, <<deg_limit, bits_limit>>)
EqEarly(a, b) ==
    /\ CanCall
    /\ EqLeaves(equal_before(brain, a, b))
    /\ UNCHANGED <<brain, simple_cache, calls, oracle, ncalls>>

\* equal(a, b) reaches the exact computation: orig_degree, orig_bits = the limits (lines 814-815)
EqEnter(a, b) ==
    /\ CanCall
    /\ Len(frames) < MaxDepth
    /\ equal_before(brain, a, b) = Cont
    /\ frames' = Append(frames, Frame(equal_exact(a, b), equal_after(brain, a, b)))
    /\ UNCHANGED <<brain, simple_cache, calls, oracle, last, ncalls, deg_limit, bits_limit>>

\* lines 817-818
EqSetLimits ==
    /\ frames # <<>>
    /\ Top.pc = "try"
    /\ deg_limit' = ExactDegree
    /\ bits_limit' = ExactBits
    /\ frames' = [frames EXCEPT ![Len(frames)].pc = "eval"]
    /\ UNCHANGED <<brain, simple_cache, calls, oracle, last, ncalls>>

\* lines 820-824 on terms the exact backend evaluates or rejects: return val1 == val2, or fall through
EqEval ==
    /\ frames # <<>>
    /\ Top.pc = "eval"
    /\ ~Top.open
    /\ frames' = [frames EXCEPT ![Len(frames)] =
                    [@ EXCEPT !.pc = "finally",
                              !.exit = IF Top.exact = Cont THEN "fall" ELSE "return"]]
    /\ UNCHANGED <<brain, simple_cache, calls, oracle, last, ncalls, deg_limit, bits_limit>>

\* lines 820-824 on the other terms: the evaluation returns, falls through, or raises an exception
\* that evaluate_alg_or_None does not catch (it may also call equal, see CanCall)
EqEvalOpen(exit) ==
    /\ frames # <<>>
    /\ Top.pc = "eval"
    /\ Top.open
    /\ frames' = [frames EXCEPT ![Len(frames)] = [@ EXCEPT !.pc = "finally", !.exit = exit]]
    /\ UNCHANGED <<brain, simple_cache, calls, oracle, last, ncalls, deg_limit, bits_limit>>

\* what a frame that left with an exception restores, were the restoring not in a finally clause
RestoreOnReturn(f) == IF f.exit = "raise" THEN <<deg_limit, bits_limit>> ELSE <<f.orig_degree, f.orig_bits>>

\* finally: alg_set_degree_limit(orig_degree); alg_set_bits_limit(orig_bits) (lines 826-828)
Restore(f) == <<f.orig_degree, f.orig_bits>>

\* the finally clause, then the rest of the call (lines 830-855) or the propagation of the exception;
\* an exception of a nested call is caught by evaluate_alg_or_None of the caller or passes through it
EqFinally(caught) ==
    /\ frames # <<>>
    /\ Top.pc = "finally"
    /\ deg_limit' = Restore(Top)[1]
    /\ bits_limit' = Restore(Top)[2]
    /\ frames' = IF Top.exit = "raise" /\ ~caught
                 THEN Unwind(SubSeq(frames, 1, Len(frames) - 1))
                 ELSE SubSeq(frames, 1, Len(frames) - 1)
    /\ last' = Exit(Top.exit = "raise",
                    IF Top.exit = "raise" THEN PyNone
                    ELSE IF Top.exit = "fall" THEN Top.after
                    ELSE Top.exact,
                    Top.entry)
    /\ UNCHANGED <<brain, simple_cache, calls, oracle, ncalls>>

NextEqual ==
    \/ \E a \in StepTerms : \E b \in StepTerms : EqEarly(a, b)
    \/ \E a \in StepTerms : \E b \in StepTerms : EqEnter(a, b)
    \/ EqSetLimits
    \/ EqEval
    \/ \E exit \in {"return", "fall", "raise"} : EqEvalOpen(exit)
    \/ \E caught \in BOOLEAN : EqFinally(caught)

SpecEqual == InitEqual /\ [][NextEqual]_vars

----------------------------------------------------------------------------
(* Runs that simplify sums and products *)

\* the operands of the sums and products
Operands == {One, ExprInt(2), Pi, ConstI, VarX, VarY}
OperandLists == (Operands \X Operands) \cup (Operands \X Operands \X Operands)

\* the rearrangements of 1..n
Perms(n) == {p \in [1..n -> 1..n] : \A i \in 1..n : \E j \in 1..n : p[j] = i}
Permuted(ts, p) == [j \in 1..Len(ts) |-> ts[p[j]]]

ArithQueries ==
    UNION {{Query("simple_pair", <<Apply(h, ts), Apply(h, Permuted(ts, p))>>) :
                h \in {Add, Mul}, p \in Perms(Len(ts))} : ts \in OperandLists}

\* hypotheses that make x and y real numbers
BothReal == Ap2(And, Ap2(Element, VarX, RR), Ap2(Element, VarY, RR))

InitArith ==
    /\ oracle \in {Oracle("tight", "tight", "err"), Oracle("err", "err", "err")}
    /\ brain \in {Brain(NoneV), Brain(BothReal)}
    /\ last \in ArithQueries
    /\ InitCommon
    /\ LimitsUntouched

\* the results r of simple(t) and q of simple(u), the second call made after the first
Pair(ts, r, q) ==
    [op |-> "simple_pair", args |-> ts, term |-> IF r.x THEN NoneV ELSE r.v,
     other |-> IF q.x THEN NoneV ELSE q.v, val |-> PyNone, raised |-> r.x \/ q.x]
PairReturns(ts, r, q) == Returns(q, Pair(ts, r, q))
\* the second call: it finds the session as the first call left it, unless that one raised
SecondSimple(B, r, u) == IF r.x THEN r ELSE Simple(B, r.s, u)
BothReturn(B, ts, r) == PairReturns(ts, r, SecondSimple(B, r, ts[2]))

\* brain.simple(t); brain.simple(u)
DoSimplePair ==
    /\ last.val = Pending
    /\ last.op = "simple_pair"
    /\ BothReturn(brain, last.args, Simple(brain, Session, last.args[1]))
    /\ UNCHANGED <<brain, oracle, ncalls, deg_limit, bits_limit, frames>>

NextArith == DoSimplePair

SpecArith == InitArith /\ [][NextArith]_vars

----------------------------------------------------------------------------
(* Runs that substitute under binders and collect free variables *)

\* local symbols of the terms (inject_vars)
SymN == Symbol("n")
SymZ == Symbol("z")
SymF == Symbol("f")
SymG == Symbol("g")
SymH == Symbol("h")

Ap3(h, t, u, w) == Apply(h, <<t, u, w>>)
\* the terms f(z) for z = 1..n are the entries of y
IndexedTuple == Ap2(Def, Ap2(Tuple, Ap1(SymF, SymZ), Ap3(For, SymZ, One, SymN)), VarY)
LocalFunction == Ap2(Def, Ap1(SymF, SymZ), Ap2(Add, SymZ, Ap1(SymF, VarA)))

ScopeTerms ==
    {Ap2(Add, VarX, Ap1(SymF, VarY)),
     Ap2(Where, VarY, Ap2(Def, VarY, VarY)),
     Ap3(Where, VarX, Ap2(Def, VarX, VarY), Ap2(Def, VarY, VarX)),
     Ap2(Where, Ap2(Add, VarX, VarY), Ap2(Equal, VarX, VarA)),
     Ap2(Where, Ap2(Add, VarX, VarY), Ap2(Def, Ap3(Tuple, VarX, VarY, SymN), Ap1(SymG, VarX))),
     Ap2(Where, Ap2(Add, VarX, VarA), Ap2(Def, Apply(Matrix2x2, <<VarX, VarY, SymN, SymZ>>), SymG)),
     Ap2(Where, Ap2(Add, VarX, VarY), Ap2(Def, Ap2(List, VarX, VarY), SymG)),
     Ap2(Where, Ap2(SymF, VarX, SymZ), LocalFunction),
     Ap3(Where, Ap1(SymF, VarX), LocalFunction, Ap2(Def, VarX, Ap1(SymF, SymZ))),
     Ap3(Where, Ap1(SymF, VarX), Ap2(Def, VarX, Ap1(SymF, SymZ)), LocalFunction),
     Ap2(Where, Ap2(Where, Ap2(Add, VarX, VarY), Ap2(Def, VarX, VarY)), Ap2(Def, VarY, ExprInt(3))),
     Ap2(Where, Ap2(Sum, Ap2(Mul, Ap1(SymF, SymZ), VarX), Ap3(For, SymZ, One, SymN)),
                Ap2(Def, Ap2(Tuple, Ap1(SymF, SymZ), Ap3(For, SymZ, One, SymN)), VarY)),
     Ap2(Where, Ap2(Sum, Ap2(Mul, Ap1(SymF, SymZ), VarX), Ap3(For, SymZ, VarA, SymN)),
                Ap2(Def, Ap2(Tuple, Ap1(SymF, SymZ), Ap3(For, SymZ, VarA, SymN)), VarY)),
     Ap2(Sum, Ap1(SymF, SymN), Ap3(For, SymN, VarA, VarX)),
     Ap2(Sum, Ap1(SymF, SymN), Ap3(For, SymN, SymN, VarX)),
     Ap2(Sum, Ap1(SymF, SymN), Ap2(ForElement, SymN, VarA)),
     Ap3(Sum, Ap1(SymF, SymN), Ap3(For, SymN, VarA, VarX), Ap2(SymG, SymN, VarA)),
     Ap2(SymG, Ap1(SymF, SymN), Ap3(For, SymN, VarA, VarX)),
     Ap3(Sum, Ap2(SymF, SymN, VarY), Ap3(For, VarY, One, VarX), Ap3(For, SymN, One, VarY)),
     Ap3(Sum, Ap2(SymF, SymN, VarY), Ap3(For, SymN, One, VarY), Ap3(For, VarY, One, VarX)),
     Ap3(Set, Ap2(Add, VarX, VarY), Ap2(ForElement, VarX, VarA), Ap1(SymG, VarX)),
     Ap2(Add, VarX, Ap2(Sum, Ap1(SymF, VarX), Ap3(For, VarX, One, VarY))),
     Ap2(Sum, VarX, Apply(For, <<>>)),
     Ap2(Where, Ap2(Add, Ap1(SymF, SymZ), SymN), IndexedTuple),
     Ap3(Where, VarX, IndexedTuple, Ap2(Def, VarX, Ap1(SymF, SymZ)))}

\* the maps of replace: each key has one replacement
ScopeKeys == {VarX, VarY, VarA, SymN, SymZ, SymF, SymG}
Replacement(k) ==
    CASE k = VarX -> ExprInt(5)
      [] k = VarY -> VarX
      [] k = VarA -> ExprInt(3)
      [] k = SymN -> VarY
      [] k = SymZ -> VarX
      [] k = SymF -> SymH
      [] OTHER -> SymF
ScopeRules == {[k \in ks |-> Replacement(k)] : ks \in SUBSET ScopeKeys}

ScopeQueries ==
    {Query("replace", <<t, rules>>) : t \in ScopeTerms, rules \in ScopeRules}
    \cup {Query("free_variables", <<t>>) : t \in ScopeTerms}

InitScope ==
    /\ oracle = Oracle("tight", "tight", "err")
    /\ brain = Brain(NoneV)
    /\ last \in ScopeQueries
    /\ InitCommon
    /\ LimitsUntouched

Replaced(ts, r) ==
    [op |-> "replace", args |-> ts, term |-> IF r = RaiseV THEN NoneV ELSE r,
     val |-> PyNone, raised |-> r = RaiseV]
Found(ts, fs) ==
    [op |-> "free_variables", args |-> ts, term |-> NoneV,
     found |-> fs \ {RaiseV}, val |-> PyNone, raised |-> RaiseV \in fs]

\* t.replace(rules, semantic=True)
DoReplace ==
    /\ last.val = Pending
    /\ last.op = "replace"
    /\ last' = Replaced(last.args, replace_semantic(last.args[1], last.args[2]))
    /\ UNCHANGED <<brain, simple_cache, calls, oracle, ncalls, deg_limit, bits_limit, frames>>

\* t.free_variables()
DoFreeVariables ==
    /\ last.val = Pending
    /\ last.op = "free_variables"
    /\ last' = Found(last.args, free_variables(last.args[1]))
    /\ UNCHANGED <<brain, simple_cache, calls, oracle, ncalls, deg_limit, bits_limit, frames>>

NextScope == DoReplace \/ DoFreeVariables

SpecScope == InitScope /\ [][NextScope]_vars

----------------------------------------------------------------------------
(* Runs that match and rewrite with a knowledge base *)

FunG == Symbol("G")
FunH == Symbol("H")

\* a knowledge base: Factorial(0) = 1; H(0) = 1; F(v) = v - 1 for real v; and
\* G(F(v), v) = v
RewriteBase ==
    <<[id |-> "e1", has_variables |-> FALSE, variables |-> {}, assumptions |-> True_,
       formula |-> Ap2(Equal, Ap1(Factorial, Zero), One)],
      [id |-> "e2", has_variables |-> FALSE, variables |-> {}, assumptions |-> True_,
       formula |-> Ap2(Equal, Ap1(FunH, Zero), One)],
      [id |-> "r1", has_variables |-> TRUE, variables |-> {VarV},
       assumptions |-> Ap2(Element, VarV, RR),
       formula |-> Ap2(Equal, Ap1(FunF, VarV), Ap2(Sub, VarV, One))],
      [id |-> "r2", has_variables |-> TRUE, variables |-> {VarV},
       assumptions |-> True_,
       formula |-> Ap2(Equal, Ap2(FunG, Ap1(FunF, VarV), VarV), VarV)]>>
RuleIds == {"r1", "r2"}

RewriteSessions ==
    {FungrimBrain(h, RewriteBase) : h \in {NoneV, Ap2(Element, VarA, RR)}}

RewriteTerms ==
    {Ap1(FunF, VarA), Ap1(FunF, ConstI), Ap1(FunF, One), Ap2(FunF, VarA, VarA),
     Ap1(FunF, Ap1(FunF, VarA)), Ap1(Factorial, Zero), Ap1(Neg, Ap1(FunF, VarA)),
     Ap2(FunG, Ap1(FunF, VarA), VarA), Ap2(FunG, Ap1(FunF, VarA), ConstI),
     Ap2(FunG, Ap1(FunF, VarV), VarA), Ap2(FunG, Ap1(FunF, VarV), VarV),
     Ap2(FunG, VarA, VarA), Ap2(FunG, Ap1(FunF, One), One),
     Ap1(FunH, Zero), Ap1(FunH, Ap1(Pos, Zero)), Ap1(Pos, Ap1(FunH, Zero)),
     Ap1(FunH, One)}

RewriteQueries ==
    {Query(op, <<t, id>>) : op \in {"match", "rewrite_fungrim"}, t \in RewriteTerms, id \in RuleIds}
    \cup {Query("simple", <<t>>) : t \in RewriteTerms}

InitRewrite ==
    /\ oracle \in {Oracle("tight", "tight", "err"), Oracle("err", "err", "err")}
    /\ brain \in RewriteSessions
    /\ last \in RewriteQueries
    /\ InitCommon
    /\ LimitsUntouched

lhs_of(B, id) == args(B.entries[id].formula)[1]

\* the assumptions of the entry with the captured values put in, simplified
Instantiated(B, s, expr, id) ==
    LET m == match_recursive(expr, lhs_of(B, id), B.entries[id].variables, EmptyMap)
    IN  IF ~m.ok THEN Ret(NoneV, s)
        ELSE Simple(B, s, replace(B.entries[id].assumptions, m.mv))

Matched(ts, r, a) ==
    [op |-> "match", args |-> ts, term |-> NoneV, val |-> PyNone, raised |-> r.x,
     matched |-> ~r.x /\ r.v.ok, binding |-> IF r.x THEN EmptyMap ELSE r.v.mv,
     assumed |-> a.v]
Rewritten(ts, r, a) ==
    [op |-> "rewrite_fungrim", args |-> ts, term |-> IF r.x THEN NoneV ELSE r.v,
     val |-> PyNone, raised |-> r.x, assumed |-> a.v]

\* brain.match(expr, lhs, variables, assumptions) for the entry id
DoMatch ==
    /\ last.val = Pending
    /\ last.op = "match"
    /\ Returns(match(brain, Session, last.args[1], lhs_of(brain, last.args[2]),
                     brain.entries[last.args[2]].variables,
                     brain.entries[last.args[2]].assumptions),
               Matched(last.args,
                       match(brain, Session, last.args[1], lhs_of(brain, last.args[2]),
                             brain.entries[last.args[2]].variables,
                             brain.entries[last.args[2]].assumptions),
                       Instantiated(brain, Session, last.args[1], last.args[2])))
    /\ UNCHANGED <<brain, oracle, ncalls, deg_limit, bits_limit, frames>>

\* brain.rewrite_fungrim(expr, id, recursive=False)
DoRewrite ==
    /\ last.val = Pending
    /\ last.op = "rewrite_fungrim"
    /\ Returns(rewrite_fungrim(brain, Session, last.args[1], last.args[2]),
               Rewritten(last.args,
                         rewrite_fungrim(brain, Session, last.args[1], last.args[2]),
                         Instantiated(brain, Session, last.args[1], last.args[2])))
    /\ UNCHANGED <<brain, oracle, ncalls, deg_limit, bits_limit, frames>>

\* the node that fungrim_simplify(expr) rewrites, its arguments simplified,
\* and the rewrites of it by the rules of its head
fungrim_candidates(B, s, expr) ==
    Bind(SimpleArgs(B, s, args(expr), 1), LAMBDA q :
    IF head(expr) \in DOMAIN B.match_db
    THEN Bind(RewriteAll(B, q.s, Apply(head(expr), q.v), B.match_db[head(expr)], 1),
              LAMBDA c : Ret([node |-> Apply(head(expr), q.v), cands |-> c.v], c.s))
    ELSE Ret([node |-> Apply(head(expr), q.v), cands |-> <<>>], q.s))

\* what fungrim_simplify did at the start of simple(expr)
Step(B, s, expr) ==
    IF simple_head(B, s, expr).c /\ DOMAIN B.expr_db # {} /\ expr \notin DOMAIN B.expr_db
    THEN [ran |-> ~fungrim_simplify(B, simple_head(B, s, expr).s, expr).x,
          out |-> fungrim_simplify(B, simple_head(B, s, expr).s, expr).v,
          seen |-> fungrim_candidates(B, simple_head(B, s, expr).s, expr).v]
    ELSE [ran |-> FALSE, out |-> NoneV, seen |-> NoneV]

Simplified(ts, r, step) ==
    [op |-> "simple", args |-> ts, term |-> IF r.x THEN NoneV ELSE r.v,
     val |-> PyNone, raised |-> r.x, step |-> step]

\* brain.simple(expr), with its knowledge-base step
DoKnowledgeSimple ==
    /\ last.val = Pending
    /\ last.op = "simple"
    /\ Returns(Simple(brain, Session, last.args[1]),
               Simplified(last.args, Simple(brain, Session, last.args[1]),
                          Step(brain, Session, last.args[1])))
    /\ UNCHANGED <<brain, oracle, ncalls, deg_limit, bits_limit, frames>>

NextRewrite == DoMatch \/ DoRewrite \/ DoKnowledgeSimple

SpecRewrite == InitRewrite /\ [][NextRewrite]_vars

----------------------------------------------------------------------------
(* Runs that simplify Where and Sqrt terms *)

Int3 == ExprInt(3)
Int4 == ExprInt(4)
Int5 == ExprInt(5)
Successor == Ap2(Def, Ap1(SymF, VarX), Ap2(Add, VarX, One))

WhereTerms ==
    {Ap3(Where, Ap2(Mul, VarX, VarY), Ap2(Def, VarX, Int5), Ap2(Def, VarY, Ap2(Add, VarX, One))),
     Ap3(Where, Ap2(Mul, VarX, VarY), Ap2(Equal, VarX, Int5), Ap2(Equal, VarY, Ap2(Mul, VarX, VarX))),
     Ap2(Where, Ap2(Add, VarX, One), Ap2(Def, VarX, Pi)),
     Ap3(Where, VarX, Ap2(Def, VarX, VarY), Ap2(Def, VarY, ExprInt(2))),
     Ap2(Where, Ap2(Add, VarX, VarY), Ap2(Def, Ap2(List, VarX, VarY), Ap2(List, Int3, Int5))),
     Ap2(Where, Ap2(Add, VarX, VarY), Ap2(Def, Ap2(Tuple, VarX, VarY), Ap2(Tuple, Int3, Int5))),
     Ap2(Where, Ap2(Add, VarX, VarY),
                Ap2(Def, Apply(Matrix2x2, <<VarX, VarY, VarA, VarV>>),
                         Apply(Matrix2x2, <<One, ExprInt(2), Int3, Int4>>))),
     Ap2(Where, Ap2(Add, VarX, VarY), Ap2(Def, Ap2(Tuple, VarX, VarY), Ap3(Tuple, Int3, Int4, Int5))),
     Ap2(Where, Ap2(Add, VarX, VarY), Ap2(Def, Ap2(Tuple, VarX, VarY), VarA)),
     Ap2(Where, Ap2(Add, VarX, VarY), Ap2(Def, Ap2(List, VarX, VarY), Ap1(Neg, VarA))),
     Ap3(Where, Ap2(Mul, VarX, VarV), Ap2(Def, VarV, ExprInt(2)), Ap2(Def, Ap2(Tuple, VarX, VarY), VarA)),
     Ap2(Where, VarA, Ap2(Def, Ap2(Tuple, VarX, VarY), VarA)),
     Ap2(Where, Ap2(Mul, Ap1(SymF, Int3), Ap1(SymF, Int4)), Successor),
     Ap2(Where, Ap1(SymF, Ap1(SymF, Int3)), Successor),
     Ap2(Where, Ap2(Add, Ap1(SymF, Int3), Ap1(SymF, Ap2(Add, Int4, Ap1(SymF, One)))), Successor),
     Ap3(Where, Ap2(Add, Ap1(SymF, One), Ap1(SymG, Int3)), Successor,
                Ap2(Def, Ap1(SymG, VarY), Ap1(SymF, VarY))),
     Ap2(Where, Ap2(SymF, Int3, Int4), Successor),
     Ap3(Where, VarX, Ap2(Def, VarX, Int5), Ap2(Def, VarX, Int3)),
     Ap2(Where, VarX, Ap1(Def, VarX)),
     Ap2(Where, VarX, VarY),
     Ap1(Where, Ap2(Add, One, One))}

\* an odd integer that no float holds
OddRoot == TwoTo(MantissaBits) + 1
Squares == {0, 1, 2, 3, 4, 5, TwoTo(MantissaBits) - 1, TwoTo(MantissaBits), OddRoot}

SqrtTerms ==
    {Ap1(Sqrt, ExprInt(k * k)) : k \in Squares}
    \cup {Ap1(Sqrt, ExprInt(-(k * k))) : k \in Squares}
    \cup {Ap1(Sqrt, ExprInt(n)) : n \in {2, 3, 8, -2, -8}}
    \cup {Ap1(Sqrt, Ap2(Pow, b, ExprInt(e))) :
             b \in {VarX, Pi, ExprInt(2), ConstI}, e \in {2, 3, 4}}
    \cup {Ap1(Sqrt, Infinity), Ap1(Sqrt, NegInfinity), Ap1(Sqrt, VarX)}

NonNegative == Ap2(Element, VarX, Ap2(ClosedOpenInterval, Zero, Infinity))

InitRules ==
    /\ oracle \in {Oracle("tight", "tight", "err"), Oracle("err", "err", "err")}
    /\ brain \in {Brain(NoneV), Brain(NonNegative), Brain(Ap2(Element, VarX, RR))}
    /\ last \in {Query("simple", <<t>>) : t \in WhereTerms \cup SqrtTerms}
    /\ InitCommon
    /\ LimitsUntouched

\* brain.simple(t)
DoSimpleRule ==
    /\ last.val = Pending
    /\ last.op = "simple"
    /\ SimpleReturns("simple", last.args, Simple(brain, Session, last.args[1]))
    /\ UNCHANGED <<brain, oracle, ncalls, deg_limit, bits_limit, frames>>

NextRules == DoSimpleRule

SpecRules == InitRules /\ [][NextRules]_vars

----------------------------------------------------------------------------
(* Properties of simple *)

\* C1: idempotence: simplifying the result of simple(t) again returns that
\* result, for every term and every session.
SimpleIdempotent ==
    (last.op = "simple_again" /\ ~last.raised) => last.term = last.args[2]

\* C2: any two calls simple(t) made on one session, nested or not, return
\* structurally equal terms.
SameTermSameResult ==
    \A c \in calls : \A d \in calls : c.t = d.t => c.r = d.r

\* C3: while the rule of t runs, a nested call simple(t) finds the entry in
\* progress and returns t itself without running the rule; when a call that
\* ran the rule returns, the cache holds its result for t.
SelfReferenceGuard ==
    \A c \in calls :
        /\ c.running => (c.how = "inprogress" /\ c.r = c.t)
        /\ c.how = "computed" => (c.stored /\ c.t \in DOMAIN simple_cache /\ simple_cache[c.t] = c.r)

\* a nested call simple(t) was made while the rule of t was running, and the outer call returned
SelfReferenceHappened ==
    \E c \in calls : c.running /\ \E d \in calls : d.t = c.t /\ d.how = "computed"

\* the domains that contain D in the lattice PP < ZZ < QQ < RR < CC, QQ < AlgebraicNumbers < CC
Containing(D) ==
    CASE D = PP -> {PP, ZZ, QQ, RR, AlgebraicNumbers, CC}
      [] D = ZZ -> {ZZ, QQ, RR, AlgebraicNumbers, CC}
      [] D = QQ -> {QQ, RR, AlgebraicNumbers, CC}
      [] D = RR -> {RR, CC}
      [] D = AlgebraicNumbers -> {AlgebraicNumbers, CC}
      [] D = CC -> {CC}

\* the session is Brain with the single hypothesis h
OnlyHypothesis(h) == ~brain.fungrim /\ brain.assumptions = {h}

\* C7: under the only hypothesis Element(x, D), simple(Element(x, D')) is True_
\* when D' contains D in the lattice and Element(x, D') unchanged otherwise.
DomainLatticeClosure ==
    \A D \in NumberDomains : \A E \in NumberDomains :
        (OnlyHypothesis(Ap2(Element, VarX, D)) /\ last.op = "simple" /\ last.args = <<Ap2(Element, VarX, E)>>)
        => (~last.raised /\ last.term = IF E \in Containing(D) THEN True_ ELSE Ap2(Element, VarX, E))

\* under x in ZZ the query for PP came back unresolved
PrimeQueryUnresolved ==
    /\ OnlyHypothesis(Ap2(Element, VarX, ZZ))
    /\ last.op = "simple"
    /\ last.args = <<Ap2(Element, VarX, PP)>>
    /\ last.term = Ap2(Element, VarX, PP)

----------------------------------------------------------------------------
(* Properties of the predicates *)

Answers == {PyTrue, PyFalse, PyNone}
AllPredicates == PredicateNames \cup {"equal", "element"}
Returned == last.val # Pending

\* every branch taken by the queries of these runs is a modelled one
NoUnmodelledBranch == last.val # Unmodelled

\* C5: each of the predicates, equal and element returns True, False or None and never raises,
\* whatever the term and whatever the numerical evaluation of the term or of a derived term gives
PredicatesNeverRaise ==
    (last.op \in AllPredicates /\ Returned) => (~last.raised /\ last.val \in Answers)

\* the numerical evaluation gave a non-finite value and the predicate raised
RaisedOnNonFinite ==
    /\ last.op \in PredicateNames /\ last.raised
    /\ neval(last.args[1]).kind # "err" /\ ~neval(last.args[1]).fin

\* equal raised although both operands have enclosures: the difference has none
RaisedOnDifference ==
    /\ last.op = "equal" /\ last.raised
    /\ complex_enclosure(last.args[1]).st = "ok" /\ complex_enclosure(last.args[2]).st = "ok"
    /\ complex_enclosure(Ap2(Sub, last.args[1], last.args[2])).st = "none"

\* an enclosure none of whose points is consistent with the answer v of predicate p
Contradicts(p, v, e) ==
    LET real == e.il = 0 /\ e.ih = 0
        notreal == e.il > 0 \/ e.ih < 0
        point == real /\ e.rl = e.rh
    IN CASE p = "is_positive" -> IF v = PyTrue THEN notreal \/ e.rh <= 0 ELSE real /\ e.rl > 0
         [] p = "is_negative" -> IF v = PyTrue THEN notreal \/ e.rl >= 0 ELSE real /\ e.rh < 0
         [] p = "is_nonnegative" -> IF v = PyTrue THEN notreal \/ e.rh < 0 ELSE real /\ e.rl >= 0
         [] p = "is_nonpositive" -> IF v = PyTrue THEN notreal \/ e.rl > 0 ELSE real /\ e.rh <= 0
         [] p = "is_zero" -> IF v = PyTrue THEN ~ContainsZero(e) ELSE RealIsZero(e) /\ real
         [] p = "is_integer" -> IF v = PyTrue THEN ~ContainsInteger(e) ELSE point /\ ContainsInteger(e)
         [] p = "is_real" -> IF v = PyTrue THEN notreal ELSE real

SignPredicates ==
    {"is_positive", "is_negative", "is_nonnegative", "is_nonpositive", "is_zero", "is_integer", "is_real"}

Decisive == last.op \in SignPredicates /\ Returned /\ ~last.raised /\ last.val \in {PyTrue, PyFalse}
Computable == complex_enclosure(last.args[1]).st = "ok" /\ complex_enclosure(last.args[1]).fin

\* C6: a True or False answer of is_positive, is_negative, is_nonnegative, is_nonpositive, is_zero,
\* is_integer or is_real is never contradicted by an enclosure the oracle yields for the term
AnswerNeverContradicted ==
    (Decisive /\ Computable) => ~Contradicts(last.op, last.val, complex_enclosure(last.args[1]))

\* the sum of no terms, which is zero, is called positive
EmptySumPositive ==
    /\ last.op = "is_positive" /\ last.args[1] = EmptySum /\ last.val = PyTrue
    /\ Computable /\ RealIsZero(complex_enclosure(EmptySum))

\* the answers element(x, T) for the operands T of S
ChildAnswers(x, S) == [j \in 1..nargs(S) |-> element(brain, Session, x, args(S)[j])]

\* the three-valued combination of the operands' answers c
Combined(h, c) ==
    LET any(v) == \E j \in 1..Len(c) : c[j] = v
        all(v) == \A j \in 1..Len(c) : c[j] = v
    IN CASE h = Union -> IF any(PyTrue) THEN PyTrue ELSE IF all(PyFalse) THEN PyFalse ELSE PyNone
         [] h = Intersection -> IF any(PyFalse) THEN PyFalse ELSE IF all(PyTrue) THEN PyTrue ELSE PyNone
         [] h = SetMinus ->
                IF c[1] = PyTrue /\ c[2] = PyFalse THEN PyTrue
                ELSE IF c[1] = PyFalse \/ (c[1] = PyTrue /\ c[2] = PyTrue) THEN PyFalse
                ELSE PyNone

SetQuery ==
    /\ last.op = "element" /\ Returned
    /\ head(last.args[2]) \in {Union, Intersection, SetMinus}
    /\ Ap2(Element, last.args[1], last.args[2]) \notin brain.inferences
    /\ Ap2(NotElement, last.args[1], last.args[2]) \notin brain.inferences
    /\ \A j \in 1..nargs(last.args[2]) : ~ChildAnswers(last.args[1], last.args[2])[j].x

\* C8: when neither Element(x, S) nor NotElement(x, S) is a fact, element(x, S) for a Union, an
\* Intersection or a SetMinus is the three-valued combination of the answers for the operands
\* (an empty Union is False)
SetCombination ==
    SetQuery =>
        /\ ~last.raised
        /\ last.val = Combined(head(last.args[2]),
                               [j \in 1..nargs(last.args[2]) |-> ChildAnswers(last.args[1], last.args[2])[j].v])

\* the combination is the one element computes whenever the Intersection has an operand
SetCombinationOfOperands ==
    (SetQuery /\ ~(head(last.args[2]) = Intersection /\ nargs(last.args[2]) = 0)) =>
        /\ ~last.raised
        /\ last.val = Combined(head(last.args[2]),
                               [j \in 1..nargs(last.args[2]) |-> ChildAnswers(last.args[1], last.args[2])[j].v])

\* element was asked about the Intersection of no sets and raised
EmptyIntersectionRaised ==
    last.op = "element" /\ last.args[2] = Apply(Intersection, <<>>) /\ last.raised

----------------------------------------------------------------------------
(* Properties of the order of the extended real numbers *)

\* the position of an extended real number on the line, in units in which the integers used are exact
Position(t) == IF t = NegInfinity THEN -1000 ELSE IF t = Infinity THEN 1000 ELSE t.i

Holds(p, t, u) ==
    CASE p = "less" -> Position(t) < Position(u)
      [] p = "less_equal" -> Position(t) <= Position(u)
      [] p = "greater" -> Position(t) > Position(u)
      [] p = "greater_equal" -> Position(t) >= Position(u)

\* C9: without hypotheses the four comparisons of -Infinity, integers and +Infinity return the exact
\* Boolean, equal infinities included, and with ConstI as an operand they return False or unknown
OrderExact ==
    (last.op \in OrderNames /\ Returned) =>
        /\ ~last.raised
        /\ (last.args[1] \in ExtendedReals /\ last.args[2] \in ExtendedReals)
              => last.val = Bool3(Holds(last.op, last.args[1], last.args[2]))
        /\ (last.args[1] = ConstI \/ last.args[2] = ConstI) => last.val \in {PyFalse, PyNone}

\* an infinity was compared with itself and the answer was True
EqualInfinitiesCompared ==
    /\ last.op = "less_equal" /\ Returned /\ last.val = PyTrue
    /\ last.args[1] = NegInfinity /\ last.args[2] = NegInfinity

\* x lies in the interval of the given kind from a to b
Inside(h, x, a, b) ==
    /\ IF h \in {ClosedInterval, ClosedOpenInterval} THEN Position(a) <= Position(x) ELSE Position(a) < Position(x)
    /\ IF h \in {ClosedInterval, OpenClosedInterval} THEN Position(x) <= Position(b) ELSE Position(x) < Position(b)

IntervalQuery == last.op = "element" /\ Returned /\ head(last.args[2]) \in IntervalHeads

\* C10: without hypotheses membership of -Infinity, an integer or +Infinity in an interval of one of
\* the four kinds with such endpoints is decided exactly; it is unknown when an endpoint is not
\* provably an extended real number, and False for ConstI when both endpoints are
IntervalExact ==
    IntervalQuery =>
        LET x == last.args[1]
            h == head(last.args[2])
            a == args(last.args[2])[1]
            b == args(last.args[2])[2]
        IN /\ ~last.raised
           /\ (x \in ExtendedReals /\ a \in ExtendedReals /\ b \in ExtendedReals)
                 => last.val = Bool3(Inside(h, x, a, b))
           /\ (a \notin ExtendedReals \/ b \notin ExtendedReals) => last.val = PyNone
           /\ (x = ConstI /\ a \in ExtendedReals /\ b \in ExtendedReals) => last.val = PyFalse

\* a point was found outside a half-open interval whose endpoints are equal (to the point)
EmptyIntervalAsked ==
    /\ IntervalQuery /\ last.val = PyFalse
    /\ head(last.args[2]) = ClosedOpenInterval
    /\ args(last.args[2])[1] = last.args[1] /\ args(last.args[2])[2] = last.args[1]
    /\ last.args[1] = Infinity

----------------------------------------------------------------------------
(* Properties of the limits of the exact backend *)

\* C4: when a call of equal has returned or raised, the degree limit and the bits limit are the
\* ones in force when the call started, for nested calls too
LimitsRestored == last.op = "equal" => last.after = last.entry

\* a call made under limits other than those of the exact computation left it with an exception
RaisedUnderOtherLimits ==
    /\ last.op = "equal" /\ last.raised /\ frames = <<>>
    /\ last.entry \in EntryLimits /\ <<deg_limit, bits_limit>> = last.entry
----------------------------------------------------------------------------
(* Properties of the rules of Add and Mul *)

\* every sum and product of these runs is simplified by a modelled branch
ArithModelled == (last.op = "simple_pair" /\ Returned) => (last.term # UnmodelledV /\ last.other # UnmodelledV)

\* C11: simple(Add(operands)) and simple(Add(permuted operands)) are the same term under the same
\* hypotheses, and likewise for Mul
PermutationInvariant ==
    (last.op = "simple_pair" /\ Returned) => (~last.raised /\ last.term = last.other)

\* when every operand is known to be a complex number the result does not depend on the order
PermutationInvariantOnComplex ==
    (last.op = "simple_pair" /\ Returned
        /\ \A j \in 1..nargs(last.args[1]) : is_complex(brain, args(last.args[1])[j]) = PyTrue)
    => (~last.raised /\ last.term = last.other)

\* a sum of two symbols that are not known to be numbers kept the order of its operands
UnknownOperandsKeptOrder ==
    /\ last.op = "simple_pair" /\ Returned /\ brain.assumptions = {}
    /\ last.args = <<Ap2(Add, VarX, VarY), Ap2(Add, VarY, VarX)>>
    /\ last.term = Ap2(Add, VarX, VarY) /\ last.other = Ap2(Add, VarY, VarX)

----------------------------------------------------------------------------
(* Properties of the scopes *)

\* Def(f(p1, ..., pk), e) or Equal(f(p1, ..., pk), e) of a Where, f not builtin
DefinitionOfFunction(t, arg) ==
    /\ head(t) = Where
    /\ head(arg) \in {Def, Equal}
    /\ head(args(arg)[1]).k = "sym"
    /\ head(args(arg)[1]).s \notin all_builtins_set

\* the formal parameters of the local function that the binder defines
Parameters(t, arg) ==
    IF DefinitionOfFunction(t, arg) THEN Elems(args(args(arg)[1])) ELSE {}

\* what the binder binds to its right and in the arguments that are not
\* binders: the local function, the components of a Tuple or Matrix2x2
\* pattern (of Tuple(f(i), For(i, a, b)): f and b), or the variable
Binds(t, arg) ==
    LET pattern == args(arg)[1]
    IN  IF DefinitionOfFunction(t, arg) THEN {head(pattern)}
        ELSE IF head(pattern) = Tuple /\ nargs(pattern) = 2
                    /\ head(args(pattern)[2]) = For
        THEN {head(args(pattern)[1]), args(args(pattern)[2])[3]}
        ELSE IF head(pattern) \in {Tuple, Matrix2x2} THEN Elems(args(pattern))
        ELSE {pattern}

\* the symbols bound at argument i of t by the binders to its left
BoundBefore(t, i, bound) ==
    bound \cup UNION {Binds(t, args(t)[j]) : j \in {k \in 1..(i - 1) : is_binder(t, k)}}

RECURSIVE Scoped(_, _, _, _)
\* t with every occurrence of a key that is not bound at its position
\* replaced; heads tells whether the head of a binding application counts
Scoped(t, rules, bound, heads) ==
    IF is_atom(t) THEN (IF t \in DOMAIN rules /\ t \notin bound THEN rules[t] ELSE t)
    ELSE Apply(IF has_binders(t) /\ ~heads THEN head(t)
               ELSE Scoped(head(t), rules, bound, heads),
               [i \in 1..nargs(t) |->
                  IF is_binder(t, i)
                  THEN Apply(head(args(t)[i]),
                             [j \in 1..nargs(args(t)[i]) |->
                                IF j = 1 THEN args(args(t)[i])[1]
                                ELSE Scoped(args(args(t)[i])[j], rules,
                                            BoundBefore(t, i, bound)
                                                \cup Parameters(t, args(t)[i]),
                                            heads)])
                  ELSE Scoped(args(t)[i], rules,
                              BoundBefore(t, nargs(t) + 1, bound), heads)])

ReplaceReturned == last.op = "replace" /\ last.val # Pending /\ ~last.raised

\* C12: replace(map, semantic=True) changes no occurrence of a symbol that is
\* bound at its position (by an earlier Def or Equal of the enclosing Where,
\* by the formal parameters of a local function inside its definition, by a
\* sibling For or ForElement) and replaces every free occurrence of a key
ScopedReplace ==
    ReplaceReturned => last.term = Scoped(last.args[1], last.args[2], {}, TRUE)

\* the same, the head of a binding application left as it is
ScopedReplaceBelowHead ==
    ReplaceReturned => last.term = Scoped(last.args[1], last.args[2], {}, FALSE)

\* a key that is the head of an application with a For argument was asked for
BinderHeadIsKey ==
    /\ ReplaceReturned
    /\ has_binders(last.args[1])
    /\ head(last.args[1]) \in DOMAIN last.args[2]

FoundReturned == last.op = "free_variables" /\ last.val # Pending /\ ~last.raised

\* an application with For or ForElement arguments, not a Where
ForApplication(t) ==
    /\ ~is_atom(t)
    /\ head(t) # Where
    /\ \E i \in 1..nargs(t) : is_binder(t, i)
ForBinders(t) == {i \in 1..nargs(t) : is_binder(t, i)}
ForVariables(t) == {args(args(t)[i])[1] : i \in ForBinders(t)}

\* the free variables of the arguments when every variable of a For or
\* ForElement is bound in the arguments that are not binders, and in them only
ForFree(t) ==
    UNION {free_variables(args(t)[i]) \ ForVariables(t) : i \in remaining(t)}
    \cup UNION {UNION {free_variables(args(args(t)[i])[j]) :
                         j \in 2..nargs(args(t)[i])} : i \in ForBinders(t)}

\* C13: free_variables of an application with an argument For(v, a, b) or
\* ForElement(v, S) has v bound in the arguments that are not binders, and
\* reports the symbols of a, b and S free
ForBindsSiblings ==
    (FoundReturned /\ ForApplication(last.args[1]))
        => last.found = ForFree(last.args[1])

\* the same for the applications with one binder
OneForBindsSiblings ==
    (FoundReturned /\ ForApplication(last.args[1])
        /\ Cardinality(ForBinders(last.args[1])) = 1)
        => last.found = ForFree(last.args[1])

\* the bound of a For names the variable of the For to its left
BoundNamesEarlierVariable ==
    /\ FoundReturned
    /\ ForApplication(last.args[1])
    /\ \E i, k \in ForBinders(last.args[1]) :
          /\ k < i
          /\ args(args(last.args[1])[k])[1]
                \in free_variables(args(args(last.args[1])[i])[3])

RECURSIVE ScopedFree(_, _)
\* the symbols, not builtin, that occur in t at a position where they are
\* not bound
ScopedFree(t, bound) ==
    IF is_atom(t)
    THEN (IF is_symbol(t) /\ t.s \notin all_builtins_set /\ t \notin bound THEN {t} ELSE {})
    ELSE (IF has_binders(t) THEN {} ELSE ScopedFree(head(t), bound))
         \cup UNION {IF is_binder(t, i)
                     THEN UNION {ScopedFree(args(args(t)[i])[j],
                                            BoundBefore(t, i, bound)
                                                \cup Parameters(t, args(t)[i])) :
                                 j \in 2..nargs(args(t)[i])}
                     ELSE ScopedFree(args(t)[i], BoundBefore(t, nargs(t) + 1, bound)) :
                     i \in 1..nargs(t)}

\* a Where with the definition of a local function
DefinesFunction(t) ==
    /\ head(t) = Where
    /\ \E i \in 2..nargs(t) : is_local_function(t, args(t)[i])

----------------------------------------------------------------------------
(* Properties of the knowledge-base rewriter *)

MatchSucceeded == last.op = "match" /\ last.val # Pending /\ last.matched

\* C15: match succeeds only if the rule, with the captured values put in
\* for its free variables, is the expression
MatchReproduces ==
    MatchSucceeded
        => replace(lhs_of(brain, last.args[2]), last.binding) = last.args[1]

RECURSIVE Symbols(_)
\* the symbols that occur in t
Symbols(t) ==
    IF is_symbol(t) THEN {t}
    ELSE IF is_atom(t) THEN {}
    ELSE UNION {Symbols(t.a[i]) : i \in 1..Len(t.a)}

\* the same for the expressions in which no variable of the rule occurs
MatchReproducesApart ==
    (MatchSucceeded
        /\ Symbols(last.args[1]) \cap brain.entries[last.args[2]].variables = {})
        => replace(lhs_of(brain, last.args[2]), last.binding) = last.args[1]

\* a match succeeded on an expression that names the variable of the rule
MatchedOwnVariable ==
    /\ MatchSucceeded
    /\ Symbols(last.args[1]) \cap brain.entries[last.args[2]].variables # {}

RuleAsked ==
    /\ last.op \in {"match", "rewrite_fungrim"}
    /\ last.val # Pending
    /\ ~last.raised

\* C16: a rule fires only if its assumptions, with the captured values put
\* in, simplify to True_; otherwise match returns no binding and
\* rewrite_fungrim(recursive=False) returns the expression unchanged
FiresOnlyWhenAssumed ==
    (RuleAsked /\ last.assumed # True_)
        => IF last.op = "match" THEN ~last.matched ELSE last.term = last.args[1]

\* a rule matched an expression and its assumptions simplified to False_
AssumptionsRefuted == RuleAsked /\ last.op = "rewrite_fungrim" /\ last.assumed = False_

\* a rule matched an expression and its assumptions stayed undecided
AssumptionsUndecided ==
    /\ RuleAsked
    /\ last.op = "match"
    /\ last.assumed \notin {True_, False_, NoneV}

\* a rule fired
RuleFired == RuleAsked /\ last.op = "rewrite_fungrim" /\ last.term # last.args[1]

StepRan == last.op = "simple" /\ last.val # Pending /\ last.step.ran

\* C17: the term returned by the knowledge-base step of FungrimBrain.simple
\* is not more complex than the node it rewrites and not more complex than
\* any rewrite of the node that the step considered
RewriterMonotone ==
    StepRan =>
        /\ complexity(brain, last.step.out) <= complexity(brain, last.step.seen.node)
        /\ \A j \in 1..Len(last.step.seen.cands) :
              complexity(brain, last.step.out)
                  <= complexity(brain, last.step.seen.cands[j])

\* the step is not more complex than the node it rewrites
RewriterBelowNode ==
    StepRan => complexity(brain, last.step.out) <= complexity(brain, last.step.seen.node)

\* the step chose a rewrite of the node
RewriteChosen ==
    /\ StepRan
    /\ \E j \in 1..Len(last.step.seen.cands) :
          last.step.seen.cands[j] # last.step.seen.node

----------------------------------------------------------------------------
(* Properties of the rules of Where and Sqrt *)

RuleReturned == last.op = "simple" /\ last.val # Pending

NoSession == [cache |-> EmptyMap, calls |-> {}, stack |-> <<>>]
\* simple(t) in a session that has simplified nothing yet
Value(B, t) ==
    IF Simple(B, NoSession, t).x THEN RaiseV ELSE Simple(B, NoSession, t).v

RECURSIVE Unfold(_, _, _, _)
\* t with every application of the local function f replaced by its value,
\* the arguments first
Unfold(t, f, params, value) ==
    IF is_atom(t) THEN t
    ELSE IF head(t) = f
    THEN (IF nargs(t) # Len(params) THEN RaiseV
          ELSE replace(value, ZipMap(params,
                   [i \in 1..nargs(t) |-> Unfold(args(t)[i], f, params, value)])))
    ELSE Built(Unfold(head(t), f, params, value),
               [i \in 1..nargs(t) |-> Unfold(args(t)[i], f, params, value)])

\* the definition d with g applied to its value
InValue(d, g(_)) == Apply(head(d), <<args(d)[1], g(args(d)[2])>>)

RECURSIVE Eliminated(_, _, _, _)
\* the body after the definitions i.. are eliminated in order, simplified
Eliminated(B, body, defs, i) ==
    IF RaiseV \in Elems(defs) \cup {body} THEN RaiseV
    ELSE IF i > Len(defs) THEN Value(B, body)
    ELSE IF is_symbol(args(defs[i])[1])
    THEN Eliminated(B, replace(body, args(defs[i])[1] :> Value(B, args(defs[i])[2])),
                    [j \in 1..Len(defs) |->
                       InValue(defs[j], LAMBDA e :
                          replace(e, args(defs[i])[1] :> Value(B, args(defs[i])[2])))],
                    i + 1)
    ELSE IF head(args(defs[i])[1]) \in destructuring
    THEN Eliminated(B, replace(body, ZipMap(args(args(defs[i])[1]),
                                            args(Value(B, args(defs[i])[2])))),
                    [j \in 1..Len(defs) |->
                       InValue(defs[j], LAMBDA e :
                          replace(e, ZipMap(args(args(defs[i])[1]),
                                            args(Value(B, args(defs[i])[2])))))],
                    i + 1)
    ELSE Eliminated(B, Unfold(body, head(args(defs[i])[1]), args(args(defs[i])[1]),
                              Value(B, args(defs[i])[2])),
                    [j \in 1..Len(defs) |->
                       IF InValue(defs[j], LAMBDA e :
                             Unfold(e, head(args(defs[i])[1]), args(args(defs[i])[1]),
                                    Value(B, args(defs[i])[2]))).a[3] = RaiseV
                       THEN RaiseV
                       ELSE InValue(defs[j], LAMBDA e :
                             Unfold(e, head(args(defs[i])[1]), args(args(defs[i])[1]),
                                    Value(B, args(defs[i])[2])))],
                    i + 1)

\* a definition of the kinds the rule handles: of a symbol, of a pattern of
\* symbols by a literal of the same length, or of a local function
Definition(d) ==
    /\ head(d) \in {Def, Equal}
    /\ nargs(d) = 2
    /\ \/ is_symbol(args(d)[1])
       \/ /\ head(args(d)[1]) \in destructuring
          /\ \A x \in Elems(args(args(d)[1])) : is_symbol(x)
          /\ head(args(d)[2]) \in destructuring
          /\ nargs(args(d)[2]) = nargs(args(d)[1])
       \/ /\ is_symbol(head(args(d)[1]))
          /\ head(args(d)[1]).s \notin all_builtins_set
          /\ \A x \in Elems(args(args(d)[1])) : is_symbol(x)

Definitions(t) ==
    /\ head(t) = Where
    /\ nargs(t) >= 2
    /\ \A i \in 2..nargs(t) : Definition(args(t)[i])

\* C18: simple(Where(body, d1, ..., dn)) eliminates the definitions in order
\* (the simplified value of each is put in for its variable, pattern or
\* function in the later definitions and in the body) and returns the
\* simplified body
WhereEliminates ==
    (RuleReturned /\ Definitions(last.args[1])
        /\ Eliminated(brain, args(last.args[1])[1], Tail(args(last.args[1])), 1) # RaiseV)
        => /\ ~last.raised
           /\ last.term = Eliminated(brain, args(last.args[1])[1],
                                     Tail(args(last.args[1])), 1)

RECURSIVE Nested(_, _)
\* an application of f occurs in an argument of an application of f
Nested(t, f) ==
    /\ ~is_atom(t)
    /\ \/ head(t) = f /\ \E i \in 1..nargs(t) : f \in Symbols(args(t)[i])
       \/ \E i \in 1..nargs(t) : Nested(args(t)[i], f)

\* no local function is applied inside its own arguments, no name is
\* defined twice
Flat(t) ==
    /\ \A i \in 2..nargs(t) : ~Nested(args(t)[1], head(args(args(t)[i])[1]))
    /\ \A i, j \in 2..nargs(t) : i # j => args(args(t)[i])[1] # args(args(t)[j])[1]

\* the same for the terms that are flat
WhereEliminatesFlat ==
    (RuleReturned /\ Definitions(last.args[1]) /\ Flat(last.args[1])
        /\ Eliminated(brain, args(last.args[1])[1], Tail(args(last.args[1])), 1) # RaiseV)
        => /\ ~last.raised
           /\ last.term = Eliminated(brain, args(last.args[1])[1],
                                     Tail(args(last.args[1])), 1)

\* a local function was applied to its own value
NestedApplication ==
    /\ RuleReturned
    /\ Definitions(last.args[1])
    /\ ~Flat(last.args[1])
    /\ ~last.raised

SqrtAsked == RuleReturned /\ head(last.args[1]) = Sqrt /\ nargs(last.args[1]) = 1

\* simple(Sqrt(n)) for the integer n is the exact root when |n| = k * k
RootOf(n, k) ==
    (SqrtAsked /\ args(last.args[1])[1] = ExprInt(n))
        => /\ ~last.raised
           /\ last.term = (IF n >= 0 THEN ExprInt(k)
                           ELSE IF k = 1 THEN ConstI
                           ELSE Ap2(Mul, ExprInt(k), ConstI))

\* simple(Sqrt(Pow(x, 4))) is Pow(x, 2) when x is known real and non-negative
RootOfFourthPower ==
    (SqrtAsked /\ args(last.args[1])[1] = Ap2(Pow, VarX, ExprInt(4))
        /\ brain = Brain(NonNegative))
        => /\ ~last.raised
           /\ last.term = Ap2(Pow, VarX, ExprInt(2))

\* C19: simple(Sqrt(n)) is k when n = k * k (k >= 0), ConstI when n = -1 and
\* Mul(k, ConstI) when n = -(k * k) (k >= 2), for every integer literal n;
\* simple(Sqrt(Pow(base, 4))) is Pow(base, 2) for a base known real and
\* non-negative
SqrtExact ==
    /\ \A k \in 0..OddRoot : RootOf(k * k, k)
    /\ \A k \in 1..OddRoot : RootOf(-(k * k), k)
    /\ RootOfFourthPower

\* the same for the roots a float holds exactly
SqrtExactSmall ==
    /\ \A k \in 0..TwoTo(MantissaBits) : RootOf(k * k, k)
    /\ \A k \in 1..TwoTo(MantissaBits) : RootOf(-(k * k), k)
    /\ RootOfFourthPower

\* the root of a square was asked for and is not an integer
RootNotFound ==
    /\ SqrtAsked
    /\ args(last.args[1])[1] = ExprInt(OddRoot * OddRoot)
    /\ last.term = last.args[1]

\* the root of a fourth power was taken
FourthPowerHalved ==
    /\ SqrtAsked
    /\ args(last.args[1])[1] = Ap2(Pow, VarX, ExprInt(4))
    /\ last.term = Ap2(Pow, VarX, ExprInt(2))

----------------------------------------------------------------------------
(* Runs that construct terms *)

CallHeads == {Add, Tuple, Set, SymF, VarX, One}
CallArgs == {VarX, One, Ap1(SymF, VarX), Apply(Tuple, <<>>)}

\* the sequences of at most n of the terms ts
SeqsUpTo(ts, n) == UNION {[1..m -> ts] : m \in 0..n}

ConstructQueries ==
    {Query("call", <<h>> \o ts) : h \in CallHeads, ts \in SeqsUpTo(CallArgs, MaxArgs)}
    \cup {Query("Expr", call) : call \in SeqsUpTo(CallArgs, MaxArgs + 1)}

InitConstruct ==
    /\ oracle = Oracle("tight", "tight", "err")
    /\ brain = Brain(NoneV)
    /\ last \in ConstructQueries
    /\ InitCommon
    /\ LimitsUntouched

Constructed(op, ts, r) ==
    [op |-> op, args |-> ts, term |-> IF r = RaiseV THEN NoneV ELSE r,
     val |-> PyNone, raised |-> r = RaiseV]

\* h(*ts)
DoCall ==
    /\ last.val = Pending
    /\ last.op = "call"
    /\ last' = Constructed("call", last.args, Expr_call(Head(last.args), Tail(last.args)))
    /\ UNCHANGED <<brain, simple_cache, calls, oracle, ncalls, deg_limit, bits_limit, frames>>

\* Expr(call=call)
DoExpr ==
    /\ last.val = Pending
    /\ last.op = "Expr"
    /\ last' = Constructed("Expr", last.args, Expr_new(last.args))
    /\ UNCHANGED <<brain, simple_cache, calls, oracle, ncalls, deg_limit, bits_limit, frames>>

NextConstruct == DoCall \/ DoExpr

SpecConstruct == InitConstruct /\ [][NextConstruct]_vars

----------------------------------------------------------------------------
(* Properties of the construction of terms *)

ConstructReturned == last.op \in {"call", "Expr"} /\ last.val # Pending

\* C20: an application with zero arguments is never constructed: applying
\* a head to an empty argument sequence faults, and every application that
\* was constructed has at least one argument
ZeroArgumentsFault ==
    ConstructReturned
        => /\ (last.op = "call" /\ Len(last.args) = 1) => last.raised
           /\ ~last.raised => nargs(last.term) >= 1

\* C20, as the code has it: only a call sequence without a head faults; a
\* head applied to any sequence of arguments, the empty one too, is the
\* application with that head and those arguments
HeadlessFaults ==
    ConstructReturned
        => /\ last.raised <=> Len(last.args) = 0
           /\ ~last.raised => /\ ~is_atom(last.term)
                              /\ Len(last.term.a) >= 1
                              /\ head(last.term) = Head(last.args)
                              /\ args(last.term) = Tail(last.args)

\* a head was applied to no arguments and the term exists
EmptyApplication ==
    /\ ConstructReturned
    /\ last.op = "call"
    /\ Len(last.args) = 1
    /\ ~last.raised
    /\ last.term = Apply(Head(last.args), <<>>)

\* a call sequence without a head was refused
HeadlessRefused ==
    /\ ConstructReturned
    /\ last.op = "Expr"
    /\ last.args = <<>>
    /\ last.raised

----------------------------------------------------------------------------
(* Runs that simplify membership under a hypothesis on a compound domain *)

\* pairs <<T, U>> of number domains with U properly inside T
Differences ==
    {<<RR, QQ>>, <<RR, ZZ>>, <<CC, RR>>, <<CC, QQ>>, <<CC, AlgebraicNumbers>>, <<QQ, ZZ>>}

Difference(p) == Ap2(SetMinus, p[1], p[2])

DomainHypotheses ==
    {Ap2(Element, VarX, Difference(p)) : p \in Differences}
    \cup {Ap2(Element, VarX, Ap2(Intersection, Difference(p), CC)) : p \in Differences}
    \cup {Ap2(Element, VarX, Ap2(Intersection, CC, Difference(p))) : p \in Differences}

DomainQueries ==
    {Query("simple", <<Ap2(h, VarX, E)>>) : h \in {Element, NotElement}, E \in NumberDomains}

InitDomain ==
    /\ oracle \in {Oracle("tight", "tight", "err"), Oracle("err", "err", "err")}
    /\ brain \in {Brain(h) : h \in DomainHypotheses}
    /\ last \in DomainQueries
    /\ InitCommon
    /\ LimitsUntouched

\* brain.simple(Element(x, E)), brain.simple(NotElement(x, E))
DoSimpleMembership ==
    /\ last.val = Pending
    /\ last.op = "simple"
    /\ SimpleReturns("simple", last.args, Simple(brain, Session, last.args[1]))
    /\ UNCHANGED <<brain, oracle, ncalls, deg_limit, bits_limit, frames>>

NextDomain == DoSimpleMembership

SpecDomain == InitDomain /\ [][NextDomain]_vars

----------------------------------------------------------------------------
(* Properties of the expansion of domains *)

\* the number domains inside U
Within(U) == {E \in NumberDomains : U \in Containing(E)}

MembershipReturned == last.op = "simple" /\ last.val # Pending

\* under the hypothesis h, x is known to be in T and its supersets, and not
\* to be in U and its subsets
Expanded(h, p) ==
    OnlyHypothesis(h)
        => /\ \A E \in Containing(p[1]) : Ap2(Element, VarX, E) \in brain.inferences
           /\ \A E \in Within(p[2]) : Ap2(NotElement, VarX, E) \in brain.inferences
           /\ \A E \in Containing(p[1]) :
                 (MembershipReturned /\ last.args = <<Ap2(Element, VarX, E)>>)
                     => ~last.raised /\ last.term = True_
           /\ \A E \in Within(p[2]) :
                 (MembershipReturned /\ last.args = <<Ap2(Element, VarX, E)>>)
                     => ~last.raised /\ last.term = False_

\* C21: a hypothesis Element(x, SetMinus(T, U)) puts Element(x, T') for T and
\* its supersets T' and NotElement(x, U') for U and its subsets U' among the
\* facts, so that Element(x, T') simplifies to True_ and Element(x, U') to
\* False_; the same when the SetMinus is an operand of an Intersection
DomainExpansion ==
    \A p \in Differences :
        /\ Expanded(Ap2(Element, VarX, Difference(p)), p)
        /\ Expanded(Ap2(Element, VarX, Ap2(Intersection, Difference(p), CC)), p)
        /\ Expanded(Ap2(Element, VarX, Ap2(Intersection, CC, Difference(p))), p)

\* the same for the hypotheses whose domain is the SetMinus itself, apart
\* from the primes outside the algebraic numbers
DomainExpansionDirect ==
    \A p \in Differences \ {<<CC, AlgebraicNumbers>>} :
        Expanded(Ap2(Element, VarX, Difference(p)), p)

\* under x in SetMinus(RR, QQ), Element(x, QQ) was found false
IrrationalRefuted ==
    /\ OnlyHypothesis(Ap2(Element, VarX, Ap2(SetMinus, RR, QQ)))
    /\ MembershipReturned
    /\ last.args = <<Ap2(Element, VarX, QQ)>>
    /\ last.term = False_

\* under x in Intersection(SetMinus(RR, QQ), CC), Element(x, QQ) was left open
IrrationalUndecided ==
    /\ OnlyHypothesis(Ap2(Element, VarX, Ap2(Intersection, Ap2(SetMinus, RR, QQ), CC)))
    /\ MembershipReturned
    /\ last.args = <<Ap2(Element, VarX, QQ)>>
    /\ last.term = Ap2(Element, VarX, QQ)

----------------------------------------------------------------------------
(* Properties of the indexed destructuring pattern *)

\* d is Def(Tuple(f(i), For(i, a, b)), T)
IndexedDefinition(d) ==
    /\ head(d) \in {Def, Equal}
    /\ nargs(d) = 2
    /\ head(args(d)[1]) = Tuple
    /\ nargs(args(d)[1]) = 2
    /\ head(args(args(d)[1])[2]) = For
    /\ nargs(args(args(d)[1])[2]) = 3
    /\ nargs(args(args(d)[1])[1]) = 1
    /\ args(args(args(d)[1])[1])[1] = args(args(args(d)[1])[2])[1]

IndexOf(d) == args(args(args(d)[1])[2])[1]
LowerOf(d) == args(args(args(d)[1])[2])[2]
UpperOf(d) == args(args(args(d)[1])[2])[3]
FunctionOf(d) == head(args(args(d)[1])[1])

\* the symbols of the k-th argument of the Where t outside its pattern, and
\* of the definitions before it
Outside(t, k) ==
    Symbols(args(args(t)[k])[2]) \cup Symbols(LowerOf(args(t)[k]))
    \cup UNION {Symbols(args(t)[j]) : j \in 2..(k - 1)}

\* the variables vs(d) of each indexed definition d of the Where that was
\* asked about are not reported free when they occur only in the body and in
\* later definitions
PatternBinds(vs(_)) ==
    (FoundReturned /\ head(last.args[1]) = Where)
        => \A k \in 2..nargs(last.args[1]) :
              IndexedDefinition(args(last.args[1])[k])
                 => \A v \in vs(args(last.args[1])[k]) :
                       v \notin Outside(last.args[1], k) => v \notin last.found

\* C22: in Where(body, Def(Tuple(f(i), For(i, a, b)), T)) free_variables
\* takes the index i and the function f as bound in the body and in the later
\* definitions
IndexedPatternBinds ==
    PatternBinds(LAMBDA d : {IndexOf(d), FunctionOf(d)})

\* C22, as the code has it: for an integer a and a symbol b the pattern binds
\* the function f and the length b; the index i is not bound by it, and is
\* reported free when it occurs in a body without binders
IndexedPatternBindsLength ==
    /\ PatternBinds(LAMBDA d : IF is_integer_atom(LowerOf(d)) /\ is_symbol(UpperOf(d))
                               THEN {FunctionOf(d), UpperOf(d)} ELSE {})
    /\ (FoundReturned /\ head(last.args[1]) = Where)
          => \A k \in 2..nargs(last.args[1]) :
                (/\ IndexedDefinition(args(last.args[1])[k])
                 /\ IndexOf(args(last.args[1])[k]) \in Symbols(args(last.args[1])[1])
                 /\ Symbols(args(last.args[1])[1]) \cap {For, ForElement, Where} = {})
                   => IndexOf(args(last.args[1])[k]) \in last.found

\* the index of the pattern was reported free, the function and the length
\* were not
IndexReportedFree ==
    /\ FoundReturned
    /\ last.args[1] = Ap2(Where, Ap2(Add, Ap1(SymF, SymZ), SymN), IndexedTuple)
    /\ last.found = {SymZ, VarY}

----------------------------------------------------------------------------
(* Properties of the substitution under binders *)

RECURSIVE FreeAt(_, _, _)
\* the positions of t (paths of argument indices, 0 for the head) at which
\* the symbol x occurs and is not bound
FreeAt(t, x, bound) ==
    IF is_atom(t) THEN (IF t = x /\ x \notin bound THEN {<<>>} ELSE {})
    ELSE (IF has_binders(t) THEN {}
          ELSE {<<0>> \o p : p \in FreeAt(head(t), x, bound)})
         \cup UNION {IF is_binder(t, i)
                     THEN UNION {{<<i, j>> \o p :
                                    p \in FreeAt(args(args(t)[i])[j], x,
                                                 BoundBefore(t, i, bound)
                                                     \cup Parameters(t, args(t)[i]))} :
                                 j \in 2..nargs(args(t)[i])}
                     ELSE {<<i>> \o p :
                             p \in FreeAt(args(t)[i], x,
                                          BoundBefore(t, nargs(t) + 1, bound))} :
                     i \in 1..nargs(t)}

RECURSIVE FreeAfter(_, _, _, _)
\* the positions at which x is free once the free occurrences of the keys
\* of rules in t are replaced without capture
FreeAfter(t, rules, x, bound) ==
    IF is_atom(t)
    THEN (IF t \in DOMAIN rules /\ t \notin bound THEN FreeAt(rules[t], x, {})
          ELSE IF t = x /\ x \notin bound THEN {<<>>} ELSE {})
    ELSE (IF has_binders(t) THEN {}
          ELSE {<<0>> \o p : p \in FreeAfter(head(t), rules, x, bound)})
         \cup UNION {IF is_binder(t, i)
                     THEN UNION {{<<i, j>> \o p :
                                    p \in FreeAfter(args(args(t)[i])[j], rules, x,
                                                    BoundBefore(t, i, bound)
                                                        \cup Parameters(t, args(t)[i]))} :
                                 j \in 2..nargs(args(t)[i])}
                     ELSE {<<i>> \o p :
                             p \in FreeAfter(args(t)[i], rules, x,
                                             BoundBefore(t, nargs(t) + 1, bound))} :
                     i \in 1..nargs(t)}

\* the symbols, not builtin, of the replacement values
ValueSymbols(rules) ==
    {x \in UNION {Symbols(rules[k]) : k \in DOMAIN rules} : x.s \notin all_builtins_set}

RECURSIVE AllBound(_)
\* every symbol that some binder of t binds
AllBound(t) ==
    IF is_atom(t) THEN {}
    ELSE AllBound(head(t))
         \cup UNION {AllBound(args(t)[i]) : i \in 1..nargs(t)}
         \cup UNION {Binds(t, args(t)[i]) \cup Parameters(t, args(t)[i]) :
                     i \in {k \in 1..nargs(t) : is_binder(t, k)}}

\* C23: replace(map, semantic=True) avoids capture: the free variables of a
\* replacement value are free in the result at every position where the
\* value was put, never bound there by an enclosing Where, For or ForElement
CaptureAvoiding ==
    ReplaceReturned
        => \A x \in ValueSymbols(last.args[2]) :
              FreeAt(last.term, x, {}) = FreeAfter(last.args[1], last.args[2], x, {})

\* the same when no binder of the term binds a symbol of a replacement value
CaptureAvoidingApart ==
    (ReplaceReturned /\ \A x \in ValueSymbols(last.args[2]) : x \notin AllBound(last.args[1]))
        => \A x \in ValueSymbols(last.args[2]) :
              FreeAt(last.term, x, {}) = FreeAfter(last.args[1], last.args[2], x, {})

\* y was replaced by x under a binder of x
VariableCaptured ==
    /\ ReplaceReturned
    /\ last.args[1] = Ap3(Set, Ap2(Add, VarX, VarY), Ap2(ForElement, VarX, VarA), Ap1(SymG, VarX))
    /\ DOMAIN last.args[2] = {VarY}
    /\ last.term = Ap3(Set, Ap2(Add, VarX, VarX), Ap2(ForElement, VarX, VarA), Ap1(SymG, VarX))

----------------------------------------------------------------------------
(* Properties of the table of ground terms *)

KnowledgeReturned ==
    last.op = "simple" /\ last.val # Pending /\ ~last.raised /\ brain.fungrim

\* the node t with its children simplified
Rebuilt(B, t) == Apply(head(t), [i \in 1..nargs(t) |-> Value(B, args(t)[i])])

\* a node that is a key of the table is replaced by its value
LookupBefore ==
    (KnowledgeReturned /\ last.args[1] \in DOMAIN brain.expr_db
        /\ is_atom(brain.expr_db[last.args[1]]))
        => last.term = brain.expr_db[last.args[1]]

\* a node that is a key of the table once its children are simplified is
\* replaced by its value
LookupAfterChildren ==
    (KnowledgeReturned /\ ~is_atom(last.args[1])
        /\ last.args[1] \notin DOMAIN brain.expr_db
        /\ RaiseV \notin Elems(args(Rebuilt(brain, last.args[1])))
        /\ Rebuilt(brain, last.args[1]) \in DOMAIN brain.expr_db
        /\ is_atom(brain.expr_db[Rebuilt(brain, last.args[1])]))
        => last.term = brain.expr_db[Rebuilt(brain, last.args[1])]

\* C24: FungrimBrain.simple looks every node up in the table of ground terms
\* before its rule runs, after its rule runs and after its children are
\* rewritten, so that a node that is a key only once its children are
\* simplified is replaced by its value, and no result is a key of the table
TableLookup ==
    /\ LookupBefore
    /\ LookupAfterChildren
    /\ KnowledgeReturned => last.term \notin DOMAIN brain.expr_db

\* the key H(0) was asked for and replaced by its value
KeyReplaced ==
    /\ KnowledgeReturned
    /\ last.args[1] = Ap1(FunH, Zero)
    /\ last.term = One

\* H(Pos(0)) was asked for and H(0), a key of the table, was returned
KeyReturned ==
    /\ KnowledgeReturned
    /\ last.args[1] = Ap1(FunH, Ap1(Pos, Zero))
    /\ last.term = Ap1(FunH, Zero)
    /\ last.term \in DOMAIN brain.expr_db

----------------------------------------------------------------------------
(* Runs that simplify terms whose head has no rule *)

\* H(a), a head that is not a symbol
CompoundHead == Ap1(FunH, VarA)

DefaultTerms ==
    {Ap1(FunH, Ap1(Pos, Zero)), Ap1(FunH, Ap2(Add, One, One)), Ap1(FunH, VarA),
     Ap2(FunH, Ap1(Pos, VarA), Ap1(Pos, One)), Ap1(FunH, Ap1(FunH, Ap1(Pos, Zero))),
     Ap1(SymF, Ap1(Neg, Ap1(Neg, VarA))), Ap1(SymF, Ap1(Sqrt, ExprInt(4))),
     Ap1(CompoundHead, Ap1(Pos, Zero)), Ap1(CompoundHead, VarA),
     Ap2(CompoundHead, Ap2(Add, One, One), VarA),
     Ap1(Ap1(FunH, Ap1(Pos, VarA)), Ap1(Pos, Zero)),
     Ap1(Ap1(CompoundHead, VarA), Ap2(Add, One, One))}

\* the sessions: Brain, and FungrimBrain with no entries, with rules only,
\* and with ground terms
DefaultSessions ==
    {Brain(NoneV), FungrimBrain(NoneV, <<>>), FungrimBrain(NoneV, SubSeq(RewriteBase, 3, 4)),
     FungrimBrain(NoneV, RewriteBase)}

InitDefault ==
    /\ oracle \in {Oracle("tight", "tight", "err"), Oracle("err", "err", "err")}
    /\ brain \in DefaultSessions
    /\ last \in {Query("simple", <<t>>) : t \in DefaultTerms}
    /\ InitCommon
    /\ LimitsUntouched

\* brain.simple(t)
DoSimpleDefault ==
    /\ last.val = Pending
    /\ last.op = "simple"
    /\ SimpleReturns("simple", last.args, Simple(brain, Session, last.args[1]))
    /\ UNCHANGED <<brain, oracle, ncalls, deg_limit, bits_limit, frames>>

NextDefault == DoSimpleDefault

SpecDefault == InitDefault /\ [][NextDefault]_vars

----------------------------------------------------------------------------
(* Properties of the default rule *)

\* the head of t has no rule simple_<head>
NoRule(t) ==
    /\ ~is_atom(t)
    /\ ~(is_symbol(head(t)) /\ head(t).s \in ModelledRules \cup OtherRules)

DefaultReturned ==
    /\ last.op = "simple"
    /\ last.val # Pending
    /\ NoRule(last.args[1])
    /\ last.args[1] \notin brain.inferences

\* C25: simple of a term that is not atomic, not a known fact and not cached
\* and whose head has no rule is the same head applied to the simplified
\* arguments, for a symbol and for a compound head, in Brain and in
\* FungrimBrain, with and without ground terms in the table
DefaultRebuilds ==
    DefaultReturned => ~last.raised /\ last.term = Rebuilt(brain, last.args[1])

\* the same for the symbol heads, in Brain and in FungrimBrain with ground
\* terms in the table
DefaultRebuildsSymbol ==
    (DefaultReturned /\ is_symbol(head(last.args[1]))
        /\ (brain.fungrim => DOMAIN brain.expr_db # {}))
        => ~last.raised /\ last.term = Rebuilt(brain, last.args[1])

\* FungrimBrain with ground terms in the table simplifies the arguments
\* under a compound head
DefaultRebuildsCompound ==
    (DefaultReturned /\ brain.fungrim /\ DOMAIN brain.expr_db # {})
        => ~last.raised /\ last.term = Rebuilt(brain, last.args[1])

\* Brain returned a term with a compound head as it was, an argument of it
\* not simplified
ArgumentsKept ==
    /\ DefaultReturned
    /\ ~brain.fungrim
    /\ last.args[1] = Ap1(CompoundHead, Ap1(Pos, Zero))
    /\ last.term = last.args[1]

\* FungrimBrain without ground terms returned a term with a symbol head as
\* it was
ArgumentsKeptWithoutTable ==
    /\ DefaultReturned
    /\ brain.fungrim
    /\ DOMAIN brain.expr_db = {}
    /\ last.args[1] = Ap1(FunH, Ap1(Pos, Zero))
    /\ last.term = last.args[1]

----------------------------------------------------------------------------
(* Runs that ask for the complexity of a term *)

ComplexityTerms ==
    {ExprInt(n) : n \in -MaxInt..MaxInt}
    \cup {ExprInt(n) : n \in {255, 256, -255, -256, 1023, -1024}}
    \cup {True_, False_, Add, Mul, Div, Sqrt, ConstI, Pi, Pow, ConstGamma, VarX, FunH, ZZ}
    \cup {Ap2(Add, One, VarX), Apply(Add, <<>>), Ap1(Neg, ExprInt(-3)), Ap1(Neg, VarX),
          Ap2(Pow, Pi, ExprInt(2)), Ap1(Sqrt, Ap2(Add, One, Pi)), Ap1(Ap1(FunH, VarA), VarX),
          Ap3(FunH, One, ExprInt(-1), Zero), Ap2(Mul, ExprInt(-2), Ap1(FunH, ExprInt(7)))}

InitComplexity ==
    /\ oracle \in {Oracle("tight", "tight", "err"), Oracle("err", "err", "err")}
    /\ brain \in {Brain(NoneV), Brain(Ap2(Element, VarX, RR))}
    /\ last \in {Query("complexity", <<t>>) : t \in ComplexityTerms}
    /\ InitCommon
    /\ LimitsUntouched

Costed(ts, c) ==
    [op |-> "complexity", args |-> ts, term |-> NoneV, val |-> PyNone, raised |-> FALSE,
     cost |-> c]

\* brain.complexity(t)
DoComplexity ==
    /\ last.val = Pending
    /\ last.op = "complexity"
    /\ last' = Costed(last.args, complexity(brain, last.args[1]))
    /\ UNCHANGED <<brain, simple_cache, calls, oracle, ncalls, deg_limit, bits_limit, frames>>

NextComplexity == DoComplexity

SpecComplexity == InitComplexity /\ [][NextComplexity]_vars

----------------------------------------------------------------------------
(* Properties of the complexity *)

CostReturned == last.op = "complexity" /\ last.val # Pending

\* the number of binary digits of n >= 0
BitLength(n) == IF n = 0 THEN 0 ELSE CHOOSE k \in 1..64 : TwoTo(k - 1) <= n /\ n < TwoTo(k)

RECURSIVE Total(_, _)
\* the sum of the complexities of ts[i..]
Total(ts, i) == IF i > Len(ts) THEN 0 ELSE complexity(brain, ts[i]) + Total(ts, i + 1)

\* the complexity is at least 1, and that of an application is the
\* complexity of the head, twice those of the arguments, and 1
CostOfApplication ==
    CostReturned
        => /\ last.cost >= 1
           /\ ~is_atom(last.args[1])
                 => last.cost = complexity(brain, head(last.args[1]))
                                  + 2 * Total(args(last.args[1]), 1) + 1

\* C26: without a penalty, complexity(t) >= 1; for an integer atom n it is
\* 1 + bitlength(n); for an application it is complexity(head) + 2 * (the
\* sum of the complexities of the arguments) + 1
ComplexityOfInteger ==
    /\ CostOfApplication
    /\ (CostReturned /\ is_integer_atom(last.args[1]))
          => last.cost = 1 + BitLength(Magnitude(last.args[1].i))

\* C26, as the code has it: a negative integer costs one more, for its sign
ComplexityOfSignedInteger ==
    /\ CostOfApplication
    /\ (CostReturned /\ is_integer_atom(last.args[1]))
          => last.cost = 1 + BitLength(Magnitude(last.args[1].i))
                           + (IF last.args[1].i < 0 THEN 1 ELSE 0)

\* the complexity of -3 was asked for and is 4
SignCounted ==
    /\ CostReturned
    /\ last.args[1] = ExprInt(-3)
    /\ last.cost = 4

----------------------------------------------------------------------------
(* Runs that follow the calls a predicate makes.  A frame is a call that is *)
(* running: the method, its arguments and the next of its call sites.  The  *)
(* call sites of a method are those its source reaches for the shape of the *)
(* argument, in the order of the source, whatever the calls before them     *)
(* return.                                                                  *)

EllipticK == Symbol("EllipticK")

Calls(p, ts) == <<[p |-> p, ts |-> ts, k |-> 1]>>
\* all(self.p(arg) for arg in x.args()), the same method on the whole term instead
OnWhole(p, x) == Calls(p, <<x>>)
\* all(self.p(arg) for arg in x.args())
OnArguments(p, x) == [j \in 1..nargs(x) |-> [p |-> p, ts |-> <<args(x)[j]>>, k |-> 1]]
When(c, sites) == IF c THEN sites ELSE <<>>
Headed(x, hs, n) == ~is_atom(x) /\ head(x) \in hs /\ (n = 0 \/ nargs(x) = n)
\* simple returns an atom as it is (line 350); its value on another term is not followed
SimpleOfAtom(t) == IF is_atom(t) THEN t ELSE NoneV
IsTerm(v) == v.k \in {"sym", "int", "app"}

\* the numeric oracle
OracleCalls == {"complex_enclosure", "real_enclosure"}
\* the methods the statement is about
Predicates ==
    {"is_zero", "is_not_zero", "is_infinity", "is_nonnegative", "is_positive", "is_negative",
     "is_nonpositive", "is_integer", "is_rational", "is_algebraic", "is_real", "is_complex",
     "equal", "element"}

\* Brain.is_zero .. Brain.is_complex and Brain.is_extended_real: the calls of p(x)
predicate_calls(p, x) ==
    LET a1 == IF nargs(x) >= 1 THEN args(x)[1] ELSE NoneV
        a2 == IF nargs(x) >= 2 THEN args(x)[2] ELSE NoneV
        inf == Calls("is_infinity", <<x>>)
        enc == Calls("complex_enclosure", <<x>>)
    IN CASE p = "is_zero" ->
              When(~is_integer_atom(x),
                   Calls("is_integer", <<x>>) \o Calls("is_positive", <<x>>) \o enc \o inf)
         [] p = "is_not_zero" -> Calls("is_zero", <<x>>)
         [] p = "is_infinity" ->
              When(Headed(x, {Pos, Neg}, 1), Calls("is_infinity", <<a1>>))
              \o When(Headed(x, {Mul}, 0),
                      OnArguments("is_infinity", x) \o OnArguments("is_infinity", x)
                      \o OnArguments("is_complex", x) \o OnArguments("is_not_zero", x))
              \o enc
         [] p = "is_nonnegative" ->
              When(~is_integer_atom(x),
                   Calls("is_real", <<x>>)
                   \o When(Headed(x, {Pos, Add, Mul, Exp, Sqrt}, 0), OnArguments("is_nonnegative", x))
                   \o When(Headed(x, {Div}, 2), Calls("is_nonnegative", <<a1>>) \o Calls("is_positive", <<a2>>))
                   \o When(Headed(x, {Pow}, 2), Calls("is_positive", <<a1>>))
                   \o enc)
         [] p = "is_positive" ->
              When(~is_integer_atom(x),
                   Calls("is_real", <<x>>)
                   \o When(Headed(x, {Exp, Cosh}, 1), Calls("is_real", <<a1>>))
                   \o When(Headed(x, {Pos, Add, Mul, Sqrt}, 0), OnArguments("is_positive", x))
                   \o When(Headed(x, {Div}, 2), Calls("is_positive", <<a1>>) \o Calls("is_positive", <<a2>>))
                   \o When(Headed(x, {Pow}, 2), Calls("is_positive", <<a1>>))
                   \o enc)
         [] p \in {"is_negative", "is_nonpositive"} -> When(~is_integer_atom(x), enc)
         [] p = "is_integer" ->
              When(~is_integer_atom(x),
                   When(Headed(x, {Pos, Neg, Add, Sub, Mul}, 0), OnArguments("is_integer", x))
                   \o When(Headed(x, {Pow}, 2),
                           Calls("is_integer", <<a1>>) \o Calls("is_integer", <<a2>>)
                           \o Calls("is_nonnegative", <<a2>>))
                   \o When(Headed(x, {Factorial}, 1),
                           Calls("is_integer", <<a1>>) \o Calls("is_nonnegative", <<a1>>))
                   \o enc \o inf)
         [] p = "is_rational" ->
              Calls("is_integer", <<x>>)
              \o When(Headed(x, {Pos, Neg, Add, Sub, Mul}, 0), OnArguments("is_rational", x))
              \o When(Headed(x, {Div}, 2),
                      Calls("is_rational", <<a1>>) \o Calls("is_rational", <<a2>>)
                      \o Calls("is_not_zero", <<a2>>))
              \o When(Headed(x, {Pow}, 2),
                      Calls("is_rational", <<a1>>) \o Calls("is_integer", <<a2>>)
                      \o Calls("is_not_zero", <<a1>>) \o Calls("is_nonnegative", <<a2>>))
              \o inf
         [] p = "is_algebraic" ->
              Calls("is_integer", <<x>>)
              \o When(Headed(x, {Pos, Neg, Add, Sub, Mul}, 0), OnArguments("is_algebraic", x))
              \o When(Headed(x, {Div}, 2),
                      Calls("is_algebraic", <<a1>>) \o Calls("is_algebraic", <<a2>>)
                      \o Calls("is_not_zero", <<a2>>))
              \o When(Headed(x, {Pow}, 2),
                      Calls("is_algebraic", <<a1>>) \o Calls("is_rational", <<a2>>)
                      \o Calls("is_not_zero", <<a1>>) \o Calls("is_nonnegative", <<a2>>)
                      \o Calls("is_algebraic", <<a2>>) \o Calls("equal", <<a1, One>>)
                      \o Calls("is_complex", <<a1>>) \o Calls("is_not_zero", <<a2>>))
              \o When(Headed(x, {Sqrt}, 1), Calls("is_algebraic", <<a1>>))
              \o When(Headed(x, {Exp}, 1),
                      Calls("is_algebraic", <<a1>>) \o Calls("is_not_zero", <<a1>>)
                      \o Calls("simple", <<Ap2(Div, a1, Ap2(Mul, Pi, ConstI))>>)
                      \o When(IsTerm(SimpleOfAtom(Ap2(Div, a1, Ap2(Mul, Pi, ConstI)))),
                              Calls("is_rational", <<SimpleOfAtom(Ap2(Div, a1, Ap2(Mul, Pi, ConstI)))>>)))
              \o When(Headed(x, {Sin, Cos, Tan, Cot, Csc, Sec}, 1),
                      Calls("is_algebraic", <<a1>>) \o Calls("is_not_zero", <<a1>>))
              \o When(Headed(x, {Log}, 1),
                      Calls("is_algebraic", <<a1>>) \o Calls("equal", <<a1, One>>))
              \o inf
         [] p = "is_real" ->
              Calls("is_rational", <<x>>)
              \o When(Headed(x, {Pos, Neg, Add, Sub, Mul, Exp, Sin, Cos}, 0), OnArguments("is_real", x))
              \o When(Headed(x, {Div}, 2),
                      Calls("is_real", <<a1>>) \o Calls("is_real", <<a2>>) \o Calls("is_not_zero", <<a2>>))
              \o When(Headed(x, {Sqrt}, 1), Calls("is_real", <<a1>>) \o Calls("is_nonnegative", <<a1>>))
              \o When(Headed(x, {Log}, 1), Calls("is_real", <<a1>>) \o Calls("is_positive", <<a1>>))
              \o When(Headed(x, {Pow}, 2),
                      Calls("is_real", <<a1>>) \o Calls("is_real", <<a2>>)
                      \o Calls("is_positive", <<a1>>) \o Calls("is_positive", <<a2>>)
                      \o Calls("is_not_zero", <<a1>>) \o Calls("is_integer", <<a2>>)
                      \o Calls("is_nonnegative", <<a2>>))
              \o enc \o inf
         [] p = "is_complex" ->
              Calls("is_real", <<x>>)
              \o When(Headed(x, {Pos, Neg, Add, Sub, Mul, Sqrt, Exp, Sin, Cos}, 0), OnArguments("is_complex", x))
              \o When(Headed(x, {Div}, 2),
                      Calls("is_complex", <<a1>>) \o Calls("is_complex", <<a2>>)
                      \o Calls("is_not_zero", <<a2>>))
              \o When(Headed(x, {Pow}, 2),
                      Calls("is_complex", <<a1>>) \o Calls("is_complex", <<a2>>)
                      \o Calls("is_not_zero", <<a1>>) \o Calls("is_real", <<a2>>)
                      \o Calls("is_positive", <<a2>>))
              \o When(Headed(x, {Log}, 1), Calls("is_complex", <<a1>>) \o Calls("is_not_zero", <<a1>>))
              \o inf
         [] OTHER -> Calls("is_real", <<x>>) \o Calls("is_complex", <<x>>)

\* Brain.equal: the calls of equal(a, b)
equal_calls(a, b) ==
    When(a # b /\ ~(is_integer_atom(a) /\ is_integer_atom(b)),
         Calls("complex_enclosure", <<a>>) \o Calls("complex_enclosure", <<b>>)
         \o Calls("complex_enclosure", <<Ap2(Sub, a, b)>>)
         \o Calls("evaluate_alg", <<a>>) \o Calls("evaluate_alg", <<b>>)
         \o Calls("is_rational", <<a>>) \o Calls("is_rational", <<b>>)
         \o Calls("is_integer", <<a>>) \o Calls("is_integer", <<b>>)
         \o Calls("is_complex", <<a>>) \o Calls("is_complex", <<b>>)
         \o Calls("is_real", <<a>>) \o Calls("is_real", <<b>>)
         \o Calls("is_infinity", <<a>>) \o Calls("is_infinity", <<b>>))

\* Brain.evaluate_alg: the calls of evaluate_alg(expr)
evaluate_alg_calls(expr) ==
    When(Headed(expr, {Pos, Neg, Sub, Add, Mul, Div, Sqrt, Pow, Sign, Re, Im, Abs}, 0),
         OnArguments("evaluate_alg", expr))
    \o When(Headed(expr, {Exp, Cos, Sin, Tan, Cot, Sec, Csc}, 1),
            Calls("simple", <<Ap2(Div, args(expr)[1], Pi)>>)
            \o When(IsTerm(SimpleOfAtom(Ap2(Div, args(expr)[1], Pi))),
                    Calls("evaluate_alg", <<SimpleOfAtom(Ap2(Div, args(expr)[1], Pi))>>)))

\* Brain.element: the calls of element(x, S)
element_calls(x, S) ==
    When(S \in {CC, HH}, Calls("is_complex", <<x>>))
    \o When(S = HH, Calls("is_positive", <<Ap1(Im, x)>>))
    \o When(S = RR, Calls("is_real", <<x>>))
    \o When(S = QQ, Calls("is_rational", <<x>>))
    \o When(S \in {ZZ, PP}, Calls("is_integer", <<x>>))
    \o When(S = AlgebraicNumbers, Calls("is_algebraic", <<x>>))
    \o When(Headed(S, {ZZGreaterEqual}, 1),
            Calls("is_integer", <<x>>) \o Calls("less_equal", <<args(S)[1], x>>))
    \o When(Headed(S, {ZZLessEqual}, 1),
            Calls("is_integer", <<x>>) \o Calls("less_equal", <<x, args(S)[1]>>))
    \o When(Headed(S, {Range}, 2),
            Calls("is_integer", <<x>>) \o Calls("less_equal", <<args(S)[1], x>>)
            \o Calls("less_equal", <<x, args(S)[2]>>))
    \o When(Headed(S, {ClosedInterval}, 2),
            Calls("is_extended_real", <<args(S)[1]>>) \o Calls("is_extended_real", <<args(S)[2]>>)
            \o Calls("is_extended_real", <<x>>)
            \o Calls("less_equal", <<args(S)[1], x>>) \o Calls("less_equal", <<x, args(S)[2]>>))
    \o When(Headed(S, {Set}, 0), [j \in 1..nargs(S) |-> [p |-> "equal", ts |-> <<x, args(S)[j]>>, k |-> 1]])
    \o When(Headed(S, {Union, Intersection}, 0) \/ Headed(S, {SetMinus}, 2),
            [j \in 1..nargs(S) |-> [p |-> "element", ts |-> <<x, args(S)[j]>>, k |-> 1]])

\* Brain.simple_Div: the calls of the rule on x and y, z1 and z2 their simplified forms
simple_Div_calls(x, y, z1, z2) ==
    Calls("is_complex", <<x>>) \o Calls("is_complex", <<y>>) \o Calls("is_not_zero", <<y>>)
    \o Calls("simple", <<x>>) \o Calls("simple", <<y>>)
    \o When(IsTerm(z1) /\ IsTerm(z2),
            Calls("is_complex", <<z1>>) \o Calls("is_complex", <<z2>>) \o Calls("is_not_zero", <<z2>>))

\* Brain.simple_EllipticK on one operand, z its simplified form
simple_EllipticK_calls(x, z) ==
    Calls("simple", <<x>>)
    \o When(IsTerm(z) /\ z \notin {ExprInt(0), ExprInt(1), ExprInt(-1), ExprInt(2)},
            Calls("equal", <<z, Ap2(Div, ExprInt(1), ExprInt(2))>>)
            \o Calls("equal", <<z, Ap2(Sub, ExprInt(17), Ap2(Mul, ExprInt(12), Ap1(Sqrt, ExprInt(2))))>>)
            \o Calls("equal", <<z, Ap2(Div, Ap2(Sub, ExprInt(4), Ap2(Mul, ExprInt(3), Ap1(Sqrt, ExprInt(2)))),
                                     ExprInt(8))>>))

\* Brain.simple_LessEqual on two operands, up to the call of equal
simple_LessEqual_calls(x, y, a, b) ==
    Calls("simple", <<x>>) \o Calls("simple", <<y>>)
    \o When(IsTerm(a) /\ IsTerm(b) /\ ~(is_integer_atom(a) /\ is_integer_atom(b)),
            Calls("is_real", <<a>>) \o Calls("is_real", <<b>>)
            \o Calls("real_enclosure", <<Ap2(Sub, a, b)>>)
            \o Calls("is_extended_real", <<a>>) \o Calls("is_extended_real", <<b>>)
            \o Calls("equal", <<a, b>>))

\* Brain.simple with the rules of Div, EllipticK and LessEqual; of the rules of the other
\* heads only the simplification of the arguments is followed
simple_calls(expr) ==
    IF is_atom(expr) THEN <<>>
    ELSE IF Headed(expr, {Div}, 2) THEN
        simple_Div_calls(args(expr)[1], args(expr)[2],
                         SimpleOfAtom(args(expr)[1]), SimpleOfAtom(args(expr)[2]))
    ELSE IF Headed(expr, {EllipticK}, 1) THEN
        simple_EllipticK_calls(args(expr)[1], SimpleOfAtom(args(expr)[1]))
    ELSE IF Headed(expr, {LessEqual}, 2) THEN
        simple_LessEqual_calls(args(expr)[1], args(expr)[2],
                               SimpleOfAtom(args(expr)[1]), SimpleOfAtom(args(expr)[2]))
    ELSE OnArguments("simple", expr)

\* the call sites of a frame
CallSites(f) ==
    CASE f.p \in OracleCalls -> <<>>
      [] f.p = "equal" -> equal_calls(f.ts[1], f.ts[2])
      [] f.p = "element" -> element_calls(f.ts[1], f.ts[2])
      [] f.p = "evaluate_alg" -> evaluate_alg_calls(f.ts[1])
      [] f.p = "less_equal" -> Calls("simple", <<Ap2(LessEqual, f.ts[1], f.ts[2])>>)
      [] f.p = "simple" -> simple_calls(f.ts[1])
      [] OTHER -> predicate_calls(f.p, f.ts[1])

CallTerms ==
    {VarX, ExprInt(3), Ap1(Neg, VarX), Ap2(Mul, VarX, ExprInt(2)), Ap2(Div, VarX, ExprInt(2)),
     Ap2(Pow, VarX, ExprInt(2)), Ap1(Exp, VarX), Ap1(Log, VarX), Ap1(Sqrt, VarX),
     Ap1(Sin, Ap1(EllipticK, VarX))}
CallSets ==
    {CC, HH, AlgebraicNumbers, Ap1(ZZGreaterEqual, Zero), Ap2(ClosedInterval, Zero, One),
     Ap2(Set, One, VarY), Ap2(SetMinus, RR, QQ), Ap2(Union, ZZ, Ap1(Set, Pi))}
CallQueries ==
    {Calls(p, <<x>>)[1] : p \in Predicates \ {"equal", "element"}, x \in CallTerms}
    \cup {Calls("equal", <<x, y>>)[1] : x \in CallTerms, y \in {Zero, VarY}}
    \cup {Calls("element", <<x, S>>)[1] : x \in {VarX, Ap1(Neg, VarX), ExprInt(3)}, S \in CallSets}

InitCalls ==
    /\ brain = Brain(NoneV)
    /\ oracle = Oracle("err", "err", "err")
    /\ \E q \in CallQueries : frames = <<q>>
    /\ last = [op |-> "call", args |-> frames[1].ts, term |-> NoneV, val |-> Pending, raised |-> FALSE,
               method |-> frames[1].p]
    /\ simple_cache = EmptyMap
    /\ calls = {}
    /\ ncalls = 0
    /\ deg_limit = 0
    /\ bits_limit = 0

\* the running method reaches its next call
Enter(sites) ==
    /\ Top.k <= Len(sites)
    /\ frames' = Append([frames EXCEPT ![Len(frames)].k = @ + 1], sites[Top.k])
DoEnter ==
    /\ frames # <<>>
    /\ Enter(CallSites(Top))
    /\ UNCHANGED <<brain, simple_cache, calls, oracle, last, ncalls, deg_limit, bits_limit>>

\* the running method has made its calls and returns
DoLeave ==
    /\ frames # <<>>
    /\ Top.k > Len(CallSites(Top))
    /\ frames' = SubSeq(frames, 1, Len(frames) - 1)
    /\ last' = IF Len(frames) = 1 THEN [last EXCEPT !.val = PyNone] ELSE last
    /\ UNCHANGED <<brain, simple_cache, calls, oracle, ncalls, deg_limit, bits_limit>>

NextCalls == DoEnter \/ DoLeave

SpecCalls == InitCalls /\ [][NextCalls]_vars

\* every call that can be made is made
SpecCallsFair == SpecCalls /\ WF_vars(NextCalls)

----------------------------------------------------------------------------
(* Properties of the calls of the predicates *)

RECURSIVE TermSize(_)
\* the number of nodes of a term
TermSize(t) ==
    IF t.k # "app" THEN 1
    ELSE LET S[j \in 0..Len(t.a)] == IF j = 0 THEN 0 ELSE S[j - 1] + TermSize(t.a[j])
         IN S[Len(t.a)]
\* the size of the arguments of a call
ArgSize(ts) ==
    LET S[j \in 0..Len(ts)] == IF j = 0 THEN 0 ELSE S[j - 1] + TermSize(ts[j])
    IN S[Len(ts)]

\* the call at depth j is of the predicate running at depth i, on arguments that are not smaller
Reenters(i, j) ==
    /\ i < j
    /\ frames[i].p \in Predicates
    /\ frames[j].p = frames[i].p
    /\ ArgSize(frames[j].ts) >= ArgSize(frames[i].ts)

ReentryThroughSimple ==
    \A i \in 1..Len(frames) : \A j \in 1..Len(frames) :
        Reenters(i, j) => \E m \in (i + 1)..(j - 1) : frames[m].p = "simple"

CallsItselfOnArgument ==
    /\ Len(frames) >= 2
    /\ frames[Len(frames) - 1].p = "is_real"
    /\ Top.p = "is_real"
    /\ frames[Len(frames) - 1].ts = <<Ap2(Mul, VarX, ExprInt(2))>>
    /\ Top.ts = <<VarX>>

----------------------------------------------------------------------------
(* Runs in which a rule raises: simple is called on a session, and called   *)
(* again on the same session.                                               *)

\* the rule of Implies raises on one or three operands (assert len(args) == 2)
FaultTerms ==
    {Ap1(Implies, VarX), Ap3(Implies, VarX, VarY, VarA), Ap1(Pos, Ap1(Implies, VarX)),
     Ap2(Add, Ap1(Implies, VarX), One), Ap2(Implies, True_, Ap1(Pos, One)), Ap2(Implies, VarX, VarY),
     Ap1(Pos, One), Ap1(Neg, VarX)}

InitFault ==
    /\ oracle = Oracle("err", "err", "err")
    /\ brain \in {Brain(NoneV), FungrimBrain(NoneV, <<>>), FungrimBrain(NoneV, RewriteBase)}
    /\ last = NoCall
    /\ InitCommon
    /\ LimitsUntouched

NextFault == \E t \in FaultTerms : DoSimple(t)

SpecFault == InitFault /\ [][NextFault]_vars

----------------------------------------------------------------------------
(* Properties of the cache after an exception *)

\* self.simple_cache[t] is None
InProgress(t) == t \in DOMAIN simple_cache /\ simple_cache[t] = NoneV

\* C28: after a call simple(t) that an exception left, the cache of the
\* session holds no in-progress marker for t
MarkerCleared ==
    (last.op = "simple" /\ last.raised) => ~InProgress(last.args[1])

\* a call simple(t) that follows a call simple(t) an exception left raises too
RaisesAgain ==
    [][(last.op = "simple" /\ last.raised /\ last'.op = "simple" /\ last'.args = last.args)
        => last'.raised]_vars

\* a first call that returns leaves no marker in the cache
NoMarkerAfterReturn ==
    (ncalls = 1 /\ last.op = "simple" /\ ~last.raised)
        => \A t \in DOMAIN simple_cache : simple_cache[t] # NoneV

\* the second call simple(Implies(x)) returned Implies(x) where the first raised
StaleMarkerReturned ==
    /\ ncalls = 2
    /\ last.op = "simple"
    /\ ~last.raised
    /\ last.args[1] = Ap1(Implies, VarX)
    /\ last.term = Ap1(Implies, VarX)
    /\ InProgress(Ap1(Implies, VarX))

----------------------------------------------------------------------------
(* Properties of the destructuring definitions of Where *)

\* a definition of a Tuple, List or Matrix2x2 pattern
Destructures(d) ==
    /\ head(d) \in {Def, Equal}
    /\ nargs(d) = 2
    /\ ~is_atom(args(d)[1])
    /\ head(args(d)[1]) \in destructuring
\* the value of the pattern does not simplify to a literal with one of those heads
NotApplicable(B, d) ==
    /\ Destructures(d)
    /\ IsTerm(Value(B, args(d)[2]))
    /\ (is_atom(Value(B, args(d)[2])) \/ head(Value(B, args(d)[2])) \notin destructuring)
\* the symbols of the pattern of d
PatternSymbols(d) == {x \in Elems(args(args(d)[1])) : is_symbol(x)}

WhereReturned ==
    /\ RuleReturned
    /\ ~last.raised
    /\ ~is_atom(last.args[1])
    /\ head(last.args[1]) = Where
    /\ nargs(last.args[1]) >= 2

\* C29: the variables of a destructuring definition that cannot be applied are
\* not free in the result of simple(Where(body, defs...))
PatternNeverLeaks ==
    WhereReturned =>
        \A j \in 2..nargs(last.args[1]) :
            NotApplicable(brain, args(last.args[1])[j]) =>
                \A x \in PatternSymbols(args(last.args[1])[j]) : x \notin free_variables(last.term)

\* a pattern whose value is a literal of another length leaves the Where node as it is
MismatchKeepsWhere ==
    (WhereReturned /\ nargs(last.args[1]) = 2 /\ Destructures(args(last.args[1])[2])
        /\ ~NotApplicable(brain, args(last.args[1])[2])
        /\ IsTerm(Value(brain, args(args(last.args[1])[2])[2]))
        /\ nargs(Value(brain, args(args(last.args[1])[2])[2])) # nargs(args(args(last.args[1])[2])[1]))
        => last.term = last.args[1]

\* the body came back with the variables of the pattern free in it
PatternLeaked ==
    /\ WhereReturned
    /\ last.args[1] = Ap2(Where, Ap2(Add, VarX, VarY), Ap2(Def, Ap2(Tuple, VarX, VarY), VarA))
    /\ last.term = Ap2(Add, VarX, VarY)
    /\ VarX \in free_variables(last.term)

----------------------------------------------------------------------------
(* Properties of the agreement of free_variables and replace *)

\* t.replace({v: e}, semantic=True) returned, for one symbol v
OneKeyReplaced ==
    /\ ReplaceReturned
    /\ Cardinality(DOMAIN last.args[2]) = 1
    /\ RaiseV \notin free_variables(last.args[1])
TheKey == CHOOSE v \in DOMAIN last.args[2] : TRUE

\* C30: t.replace({v: e}, semantic=True) differs from t if and only if v is
\* in t.free_variables()
ScopingAgrees ==
    OneKeyReplaced => ((last.term # last.args[1]) <=> (TheKey \in free_variables(last.args[1])))

\* a symbol that is not free in t is not replaced
BoundNotReplaced ==
    (OneKeyReplaced /\ TheKey \notin free_variables(last.args[1])) => last.term = last.args[1]
\* a symbol that is free in t is replaced
FreeReplaced ==
    (OneKeyReplaced /\ TheKey \in free_variables(last.args[1])) => last.term # last.args[1]

====
